---- MODULE Spec2Model ----
(***************************************************************************)
(* A model of testgen's change-aware function-extraction pipeline:         *)
(*   - internal/git/diff.go      : the unified-diff parser                 *)
(*   - internal/parser/ast.go    : the syntax analyzer                     *)
(*   - internal/analyzer         : the reconciler and its selection policy *)
(* Strings are TLA+ strings; the Go string functions are modelled on them  *)
(* character by character.                                                 *)
(***************************************************************************)
EXTENDS Integers, Sequences, FiniteSets, TLC

VARIABLES
    \* ---- diff parser (parseDiff) ----
    dpc,              \* "idle" | "scan" | "done"
    source,           \* which diff text the scanner reads
    scanned,          \* number of lines the scanner has returned
    currentFile,      \* <<>> (nil) or <<FileDiff>>
    currentFunction,  \* string
    lineNum,          \* int
    lastLine,         \* scanner.Text(): the line of the latest iteration
    hunkFunctions,    \* the functions the text of the current hunk has declared so far
    result,           \* DiffResult.Files
    modified,         \* <<>> or <<[file |-> i, names |-> GetModifiedFunctions()]>>
    \* ---- syntax analyzer (ParseFile, FilterFunctions) ----
    ppc,              \* "idle" | "walk" | "panic" | "parsed" | "filtered" | "converted"
    node,             \* the function declarations of the file's syntax tree visited so far
    genDecls,         \* the const, var and type declarations visited so far
    analysis,         \* FileAnalysis: [File, Functions, Constants, Variables, Types]
    filtered,         \* <<>> or <<[names |-> argument, out |-> FilterFunctions(names)]>>
    functionDetails,  \* analyzeChangedFile's functionDetails
    \* ---- reconciler (AnalyzeChanges, buildGenerationTargets) ----
    apc,              \* "idle" | "files" | "done" | "error" | "panic" | "parsePanic" | "called"
    asource,          \* which entry point runs, on which files
    functionNamesArg, \* AnalyzeSpecificFunctions' functionNames
    lastFile,         \* <<>> or <<the file of the loop's latest iteration>>
    filesSeen,        \* number of files the loop has gone through
    declsSeen,        \* number of function declarations parsed in those files
    ChangedFiles,     \* AnalysisResult.ChangedFiles
    TotalFunctions,   \* AnalysisResult.TotalFunctions
    ModifiedFunctions, \* AnalysisResult.ModifiedFunctions
    GenerationTargets, \* AnalysisResult.GenerationTargets
    isTestCall,       \* <<>> or <<[name |-> argument, out |-> isTestFunction(name)]>>
    \* ---- configuration (LoadConfig, ShouldIncludeFunction) ----
    cpc,              \* "idle" | "start" | "find" | "read" | "env" | "validate" | "returned" | "called"
    centry,           \* "LoadConfig" | "LoadConfigFromFile"
    config,           \* <<>> (nil) or <<Config>>
    cfgErr,           \* the error returned: "" is nil
    env,              \* the TESTGEN_ variables of the environment: "" is unset
    includeCall,      \* <<>> or <<[name, isExported, complexity, out]>>: a call of ShouldIncludeFunction
    \* ---- writing the test files (WriteTestFiles) ----
    wpc,              \* "idle" | "start" | "writing" | "returned"
    runs,             \* the calls of WriteTestFiles so far
    wfunctions,       \* the argument functions
    wtests,           \* the argument tests
    testsByFile,      \* map of source file to its tests
    functionsByFile,  \* map of source file to its functions
    pending,          \* the keys of testsByFile the range loop has not visited
    fs,               \* the file system: path -> content, for the files that exist
    fs0,              \* the file system when WriteTestFiles was called
    writeErr,         \* the error returned: "" is nil
    lastWrite,        \* <<>> or <<the last call of writeTestFile: path, err, ops>>
    \* ---- git hooks (installGitHooks, uninstallGitHooks) ----
    hpc,              \* "idle" | "install" | "install-loop" | "failed" | "installed" |
                      \* "loop" | "returned"
    cfgHooks,         \* cfg.Hooks, the hooks installGitHooks is asked to install
    gitDir,           \* whether the directory .git exists
    hookIndex,        \* hooks of hookNames visited
    hookFiles,        \* .git/hooks: name -> [content, readable], for the files that exist
    hookFiles0,       \* .git/hooks when uninstallGitHooks was called
    hookOutput,       \* the lines printed
    hookErr,          \* the error returned: "" is nil
    \* ---- the generate command (runGenerate) ----
    gpc,              \* "idle" | "start" | "analyze" | "generate" | "write" | "returned"
    dryRun,           \* the --dry-run flag
    verbose,          \* the --verbose flag
    gitRange,         \* the --range flag
    flagFunction,     \* the --function flag (functionName)
    args,             \* the files named on the command line
    genTargets,       \* result.GenerationTargets, once the analysis returned
    calls,            \* the calls runGenerate has made, in order
    printed,          \* the lines runGenerate has printed
    runErr            \* the error returned: "" is nil

diffVars == <<dpc, source, scanned, currentFile, currentFunction, lineNum, lastLine, hunkFunctions, result, modified>>

astVars == <<ppc, node, genDecls, analysis, filtered, functionDetails>>

tgtVars == <<apc, asource, functionNamesArg, lastFile, filesSeen, declsSeen, ChangedFiles, TotalFunctions, ModifiedFunctions,
             GenerationTargets, isTestCall>>

cfgVars == <<cpc, centry, config, cfgErr, env, includeCall>>

wrVars == <<wpc, runs, wfunctions, wtests, testsByFile, functionsByFile, pending, fs, fs0,
            writeErr, lastWrite>>

hookVars == <<hpc, cfgHooks, gitDir, hookIndex, hookFiles, hookFiles0, hookOutput, hookErr>>

genVars == <<gpc, dryRun, verbose, gitRange, flagFunction, args, genTargets, calls, printed,
             runErr>>

vars == <<diffVars, astVars, tgtVars, cfgVars, wrVars, hookVars, genVars>>

\* what the steps of one component leave alone
notDiff == <<astVars, tgtVars, cfgVars, wrVars, hookVars, genVars>>
notAst  == <<diffVars, tgtVars, cfgVars, wrVars, hookVars, genVars>>
notTgt  == <<diffVars, astVars, cfgVars, wrVars, hookVars, genVars>>
notCfg  == <<diffVars, astVars, tgtVars, wrVars, hookVars, genVars>>
notWr   == <<diffVars, astVars, tgtVars, cpc, centry, cfgErr, env, includeCall, hookVars, genVars>>
notGen  == <<diffVars, astVars, tgtVars, cpc, centry, cfgErr, env, includeCall, wrVars, hookVars>>
notHook == <<diffVars, astVars, tgtVars, cfgVars, wrVars, genVars>>

\* ------------------------------------------------------------------------
\* Bounds
\* ------------------------------------------------------------------------
\* the longest list cfg.Hooks
MaxHooks == 2
\* the most successive calls of WriteTestFiles
MaxRuns == 2

\* Longest free-form diff text, in lines.
MaxLines == 4

\* Most function declarations in a parsed file.
MaxFuncs == 2

\* Longest list of names handed to FilterFunctions.
MaxNames == 2

\* Most const, var and type declarations in a parsed file.
MaxGenDecls == 1

\* Longest list of Filtering.SkipPatterns.
MaxPatterns == 2

\* Most files one analysis goes through.
MaxFiles == 2

\* Most function declarations in the files of one analysis, together.
MaxDetails == 3

\* The environment with no TESTGEN_ variable set.
NoEnvironment ==
    [TESTGEN_MODE |-> "", TESTGEN_PROVIDER |-> "", TESTGEN_API_KEY |-> "", TESTGEN_MODEL |-> "",
     TESTGEN_BASE_URL |-> ""]

\* ------------------------------------------------------------------------
\* Go string functions (package strings), on TLA+ strings
\* ------------------------------------------------------------------------
\* s[n:]
Drop(s, n) == SubSeq(s, n + 1, Len(s))

\* s[:n]
Take(s, n) == SubSeq(s, 1, n)

\* s[i] as a one-character string (i is 0-based, as in Go)
CharAt(s, i) == SubSeq(s, i + 1, i + 1)

HasPrefix(s, p) == Len(s) >= Len(p) /\ Take(s, Len(p)) = p

TrimPrefix(s, p) == IF HasPrefix(s, p) THEN Drop(s, Len(p)) ELSE s

\* strings.Index: the 0-based position of the first occurrence, or -1
Index(s, sub) ==
    LET hits == {i \in 0..(Len(s) - Len(sub)) : SubSeq(s, i + 1, i + Len(sub)) = sub}
    IN  IF hits = {} THEN -1 ELSE CHOOSE i \in hits : \A j \in hits : i <= j

\* the 0-based position of the last occurrence, or -1
LastIndex(s, sub) ==
    LET hits == {i \in 0..(Len(s) - Len(sub)) : SubSeq(s, i + 1, i + Len(sub)) = sub}
    IN  IF hits = {} THEN -1 ELSE CHOOSE i \in hits : \A j \in hits : i >= j

Contains(s, sub) == Index(s, sub) # -1

RECURSIVE TrimLeft(_, _)
TrimLeft(s, cutset) ==
    IF Len(s) > 0 /\ CharAt(s, 0) \in cutset THEN TrimLeft(Drop(s, 1), cutset) ELSE s

RECURSIVE TrimRight(_, _)
TrimRight(s, cutset) ==
    IF Len(s) > 0 /\ CharAt(s, Len(s) - 1) \in cutset
    THEN TrimRight(Take(s, Len(s) - 1), cutset) ELSE s

\* strings.Trim(s, cutset)
Trim(s, cutset) == TrimRight(TrimLeft(s, cutset), cutset)

WhiteSpace == {" ", "\t"}

TrimSpace(s) == Trim(s, WhiteSpace)

Digits == {"0", "1", "2", "3", "4", "5", "6", "7", "8", "9"}

\* ------------------------------------------------------------------------
\* internal/git/diff.go
\* ------------------------------------------------------------------------
Added == 0
Removed == 1
Modified == 2
Context == 3

\* fileHeaderRegex.FindStringSubmatch: <<>> (nil) or <<whole, old, new>>.
\* The first (.*) is greedy: the split is at the last " b/".
fileHeaderRegex(line) ==
    LET pre == "diff --git a/" IN
    IF ~HasPrefix(line, pre) THEN <<>>
    ELSE LET rest == Drop(line, Len(pre))
             k    == LastIndex(rest, " b/")
         IN  IF k = -1 THEN <<>>
             ELSE <<line, Take(rest, k), Drop(rest, k + 3)>>

\* \d+ at the head of s: the text left after the longest run of digits,
\* <<>> when there is no digit
EatDigits1(s) ==
    LET r == TrimLeft(s, Digits) IN IF Len(r) = Len(s) THEN <<>> ELSE <<r>>

\* (\d+),?(\d*) at the head of s: <<>> or <<the text left>>
EatRange(s) ==
    LET a == EatDigits1(s) IN
    IF a = <<>> THEN <<>>
    ELSE <<TrimLeft(TrimPrefix(a[1], ","), Digits)>>

\* hunkHeaderRegex.FindStringSubmatch: <<>> (nil) or <<matches[5]>>, the
\* only group parseDiff reads
hunkHeaderRegex(line) ==
    IF ~HasPrefix(line, "@@ -") THEN <<>>
    ELSE LET a == EatRange(Drop(line, 4)) IN
         IF a = <<>> \/ ~HasPrefix(a[1], " +") THEN <<>>
         ELSE LET b == EatRange(Drop(a[1], 2)) IN
              IF b = <<>> \/ ~HasPrefix(b[1], " @@") THEN <<>>
              ELSE <<TrimPrefix(Drop(b[1], 3), " ")>>

\* extractFunctionName(line)
extractFunctionName(line) ==
    LET l1 == TrimSpace(line)
        l2 == IF HasPrefix(l1, "+") \/ HasPrefix(l1, "-") \/ HasPrefix(l1, " ")
              THEN TrimSpace(Drop(l1, 1)) ELSE l1
    IN  IF ~HasPrefix(l2, "func ") THEN ""
        ELSE LET l3 == TrimSpace(TrimPrefix(l2, "func "))
                 closeParen == Index(l3, ") ")
                 l4 == IF HasPrefix(l3, "(") /\ closeParen # -1
                       THEN TrimSpace(Drop(l3, closeParen + 2)) ELSE l3
                 parenIndex == Index(l4, "(")
             IN  IF parenIndex = -1 THEN ""
                 ELSE Trim(TrimSpace(Take(l4, parenIndex)), {" ", "\t", "*", "&", "[", "]"})

\* ---- what the text of a diff declares ------------------------------------
IdentAlphabet == "abcdefghijklmnopqrstuvwxyzABCDEFGHIJKLMNOPQRSTUVWXYZ_0123456789"

IdentChars == {CharAt(IdentAlphabet, i) : i \in 0..(Len(IdentAlphabet) - 1)}

\* The function a line of Go declares, "" when the line is no function
\* declaration: func, an optional receiver in parentheses, the identifier,
\* and then the type parameters or the parameters
DeclaredName(text) ==
    LET t == TrimSpace(text) IN
    IF ~HasPrefix(t, "func ") THEN ""
    ELSE LET r0 == TrimSpace(Drop(t, 5))
             close == Index(r0, ")")
             r1 == IF HasPrefix(r0, "(")
                   THEN (IF close = -1 THEN "" ELSE TrimSpace(Drop(r0, close + 1)))
                   ELSE r0
             after == TrimLeft(r1, IdentChars)
             name  == Take(r1, Len(r1) - Len(after))
         IN IF name # "" /\ (HasPrefix(after, "(") \/ HasPrefix(after, "[")) THEN name ELSE ""

\* the functions of the current hunk, after a line of the diff: none after
\* a file header, the one of its context after a hunk header, one more
\* after an added or context line that declares a function
hunkFunctionsAfter(names, line) ==
    IF HasPrefix(line, "diff --git ") THEN {}
    ELSE IF hunkHeaderRegex(line) # <<>>
    THEN {DeclaredName(hunkHeaderRegex(line)[1])} \ {""}
    ELSE IF (HasPrefix(line, "+") \/ HasPrefix(line, " ")) /\ DeclaredName(Drop(line, 1)) # ""
    THEN names \cup {DeclaredName(Drop(line, 1))}
    ELSE names

\* A mutation of parseDiffLine: a line it does not recognise is kept as context.
parseDiffLineKeepAll(line, fn) ==
    IF Len(line) = 0 THEN <<>>
    ELSE <<[Type |-> Context, Line |-> Drop(line, 1), LineNum |-> 0, Function |-> fn]>>

\* parseDiffLine(line, currentFunction): <<>> (nil) or <<DiffChange>>
parseDiffLine(line, fn) ==
    IF Len(line) = 0 THEN <<>>
    ELSE LET c == CharAt(line, 0)
             change(t) == <<[Type |-> t, Line |-> Drop(line, 1), LineNum |-> 0, Function |-> fn]>>
         IN  CASE c = "+" -> change(Added)
               [] c = "-" -> change(Removed)
               [] c = " " -> change(Context)
               [] OTHER   -> <<>>

InSeq(x, s) == \E i \in 1..Len(s) : s[i] = x

\* A mutation of addFunctionIfModified: the name is never recorded.
addFunctionNever(fd, functionName) == fd

\* A mutation of addFunctionIfModified: no check for an existing entry.
addFunctionAlways(fd, functionName) ==
    IF functionName = "" THEN fd
    ELSE [fd EXCEPT !.Functions = Append(@, functionName)]

\* (fd *FileDiff) addFunctionIfModified(functionName)
addFunctionIfModified(fd, functionName) ==
    IF functionName = "" THEN fd
    ELSE IF InSeq(functionName, fd.Functions) THEN fd
    ELSE [fd EXCEPT !.Functions = Append(@, functionName)]

NewFileDiff(old, new) ==
    [OldPath |-> old, NewPath |-> new, Changes |-> <<>>, Functions |-> <<>>]

isMetadata(line) ==
    HasPrefix(line, "index ") \/ HasPrefix(line, "--- ") \/ HasPrefix(line, "+++ ")

\* ---- the diff texts the scanner reads --------------------------------
\* The diff of TestParseDiff: one hunk changes ValidateUser, a second hunk
\* shows CreateUser unchanged and adds DeleteUser after it.
ScenarioA == <<
    "diff --git a/user.go b/user.go",
    "index 1234567..abcdefg 100644",
    "--- a/user.go",
    "+++ b/user.go",
    "@@ -10,6 +10,12 @@ func ValidateUser(user *User) error {",
    "     if user.Email == \"\" {",
    "         return errors.New(\"email required\")",
    "     }",
    "+    if !strings.Contains(user.Email, \"@\") {",
    "+        return errors.New(\"invalid email format\")",
    "+    }",
    "     return nil",
    " }",
    " ",
    "@@ -25,3 +31,7 @@ func CreateUser(name, email string) *User {",
    "         Email: email,",
    "     }",
    " }",
    "+",
    "+func DeleteUser(id int) error {",
    "+    return database.Delete(\"users\", id)",
    "+}" >>

\* The lines a free-form diff text is made of.
DiffLines == {
    "diff --git a/user.go b/user.go",
    "diff --git a/db.go b/db.go",
    "--- a/user.go",
    "@@ -10,6 +10,12 @@ func ValidateUser(user *User) error {",
    "@@ -25,3 +31,7 @@ func CreateUser(name, email string) *User {",
    "@@ -1 +1 @@",
    "@@ -3,4 +3,5 @@ type User struct {",
    "@@ bad @@ func Broken() {",
    "+    return nil",
    "-    return nil",
    " }",
    "+",
    "+func DeleteUser(id int) error {",
    " func (u *User) GetName() string {",
    "+func Map[T any](xs []T) []T {",
    "diff --git \"a/caf\\303\\251.go\" \"b/caf\\303\\251.go\"",
    "-func Old() {",
    "",
    "\\ No newline at end of file" }

Sources == {"any", "scenarioA"}

\* scanner.Scan(): the lines the next call may return
NextLines ==
    CASE source = "any"       -> IF scanned < MaxLines THEN DiffLines ELSE {}
      [] source = "scenarioA" -> IF scanned < Len(ScenarioA) THEN {ScenarioA[scanned + 1]} ELSE {}
      [] OTHER                -> {}

\* scanner.Scan() may return false: a free-form text ends anywhere
AtEOF ==
    CASE source = "any"       -> TRUE
      [] source = "scenarioA" -> scanned = Len(ScenarioA)
      [] OTHER                -> FALSE

\* parseDiff, lines 90-99: the state before the first line is read
DiffInit ==
    /\ dpc = "scan"
    /\ source \in Sources
    /\ scanned = 0
    /\ currentFile = <<>>
    /\ currentFunction = ""
    /\ lineNum = 0
    /\ lastLine = ""
    /\ hunkFunctions = {}
    /\ result = <<>>
    /\ modified = <<>>
    /\ ppc = "idle" /\ node = <<>> /\ analysis = [File |-> "", Functions |-> <<>>]
    /\ filtered = <<>> /\ functionDetails = <<>>
    /\ apc = "idle" /\ asource = "" /\ functionNamesArg = <<>> /\ lastFile = <<>> /\ filesSeen = 0 /\ declsSeen = 0 /\ ChangedFiles = <<>>
    /\ TotalFunctions = 0 /\ ModifiedFunctions = 0 /\ GenerationTargets = <<>>
    /\ isTestCall = <<>>
    /\ cpc = "idle" /\ centry = "" /\ config = <<>> /\ cfgErr = "" /\ env = NoEnvironment /\ includeCall = <<>>
    /\ genDecls = <<>>
    /\ wpc = "idle" /\ runs = 0 /\ wfunctions = <<>> /\ wtests = <<>> /\ testsByFile = <<>>
    /\ functionsByFile = <<>> /\ pending = {} /\ fs = <<>> /\ fs0 = <<>> /\ writeErr = ""
    /\ lastWrite = <<>>
    /\ cfgHooks = <<>> /\ gitDir = TRUE
    /\ hpc = "idle" /\ hookIndex = 0 /\ hookFiles = <<>> /\ hookFiles0 = <<>>
    /\ hookOutput = <<>> /\ hookErr = ""
    /\ gpc = "idle" /\ dryRun = FALSE /\ verbose = FALSE /\ gitRange = "" /\ flagFunction = ""
    /\ args = <<>> /\ genTargets = <<>> /\ calls = <<>> /\ printed = <<>> /\ runErr = ""

\* parseDiff, lines 105-116: a file header
ScanFileHeader ==
    /\ dpc = "scan"
    /\ \E line \in NextLines :
        LET matches == fileHeaderRegex(line) IN
        /\ matches # <<>>
        /\ lastLine' = line
        /\ hunkFunctions' = hunkFunctionsAfter(hunkFunctions, line)
        /\ result' = IF currentFile # <<>> THEN Append(result, currentFile[1]) ELSE result
        /\ currentFile' = <<NewFileDiff(matches[2], matches[3])>>
        /\ lineNum' = 0
        /\ currentFunction' = ""
    /\ scanned' = scanned + 1
    /\ UNCHANGED <<dpc, source, modified>>
    /\ UNCHANGED notDiff

\* The hunk-header branch's effect on (currentFile, currentFunction)
hunkUpdate(cf, fn, ctx) ==
    LET extractedFunc == extractFunctionName(ctx) IN
    IF ctx # "" /\ extractedFunc # ""
    THEN [file |-> IF cf # <<>> THEN <<addFunctionIfModified(cf[1], extractedFunc)>> ELSE cf,
          fn   |-> extractedFunc]
    ELSE [file |-> cf, fn |-> fn]

\* parseDiff, lines 119-132: a hunk header
ScanHunkHeader ==
    /\ dpc = "scan"
    /\ \E line \in NextLines :
        /\ lastLine' = line
        /\ hunkFunctions' = hunkFunctionsAfter(hunkFunctions, line)
        /\ fileHeaderRegex(line) = <<>>
        /\ LET matches == hunkHeaderRegex(line) IN
           /\ matches # <<>>
           /\ LET u == hunkUpdate(currentFile, currentFunction, matches[1]) IN
              /\ currentFile' = u.file
              /\ currentFunction' = u.fn
        /\ lineNum' = 0
    /\ scanned' = scanned + 1
    /\ UNCHANGED <<dpc, source, result, modified>>
    /\ UNCHANGED notDiff

\* parseDiff, lines 135-139: index/---/+++ lines are skipped
ScanMetadata ==
    /\ dpc = "scan"
    /\ \E line \in NextLines :
        /\ lastLine' = line
        /\ hunkFunctions' = hunkFunctionsAfter(hunkFunctions, line)
        /\ fileHeaderRegex(line) = <<>>
        /\ hunkHeaderRegex(line) = <<>>
        /\ isMetadata(line)
    /\ scanned' = scanned + 1
    /\ UNCHANGED <<dpc, source, currentFile, currentFunction, lineNum, result, modified>>
    /\ UNCHANGED notDiff

\* The content branch's effect on (currentFile, currentFunction) once
\* parseDiffLine returned a change
contentUpdate(fd, fn, change, num) ==
    LET ch  == [change EXCEPT !.LineNum = num]
        fd1 == [fd EXCEPT !.Changes = Append(@, ch)]
        funcName == extractFunctionName(ch.Line)
    IN  IF (ch.Type = Added \/ ch.Type = Context) /\ Contains(ch.Line, "func ") /\ funcName # ""
        THEN [file |-> addFunctionIfModified(fd1, funcName), fn |-> funcName]
        ELSE [file |-> fd1, fn |-> fn]

\* parseDiff, lines 142-157: a content line of the current file
ScanContent ==
    /\ dpc = "scan"
    /\ currentFile # <<>>
    /\ \E line \in NextLines :
        /\ lastLine' = line
        /\ hunkFunctions' = hunkFunctionsAfter(hunkFunctions, line)
        /\ fileHeaderRegex(line) = <<>>
        /\ hunkHeaderRegex(line) = <<>>
        /\ ~isMetadata(line)
        /\ LET change == parseDiffLine(line, currentFunction) IN
           IF change # <<>>
           THEN LET u == contentUpdate(currentFile[1], currentFunction, change[1], lineNum) IN
                /\ currentFile' = <<u.file>>
                /\ currentFunction' = u.fn
           ELSE UNCHANGED <<currentFile, currentFunction>>
    /\ lineNum' = lineNum + 1
    /\ scanned' = scanned + 1
    /\ UNCHANGED <<dpc, source, result, modified>>
    /\ UNCHANGED notDiff

\* parseDiff, line 142: a content line before any file header is dropped
ScanOutsideFile ==
    /\ dpc = "scan"
    /\ currentFile = <<>>
    /\ \E line \in NextLines :
        /\ lastLine' = line
        /\ hunkFunctions' = hunkFunctionsAfter(hunkFunctions, line)
        /\ fileHeaderRegex(line) = <<>>
        /\ hunkHeaderRegex(line) = <<>>
        /\ ~isMetadata(line)
    /\ scanned' = scanned + 1
    /\ UNCHANGED <<dpc, source, currentFile, currentFunction, lineNum, result, modified>>
    /\ UNCHANGED notDiff

\* parseDiff, lines 160-165: end of input, the last file is appended
ScanEOF ==
    /\ dpc = "scan"
    /\ AtEOF
    /\ result' = IF currentFile # <<>> THEN Append(result, currentFile[1]) ELSE result
    /\ dpc' = "done"
    /\ lastLine' = ""
    /\ UNCHANGED <<source, scanned, currentFile, currentFunction, lineNum, modified,
                   hunkFunctions>>
    /\ UNCHANGED notDiff

\* A mutation of functionsWithChanges: context lines count as changes.
functionsWithAnyLine(changes) ==
    {changes[i].Function : i \in {j \in 1..Len(changes) : changes[j].Function # ""}}

\* GetModifiedFunctions, lines 171-180: the keys of functionsWithChanges
RECURSIVE functionsWithChanges(_)
functionsWithChanges(changes) ==
    IF changes = <<>> THEN {}
    ELSE LET change == changes[Len(changes)]
             before == functionsWithChanges(Take(changes, Len(changes) - 1))
         IN  IF (change.Type = Added \/ change.Type = Removed) /\ change.Function # ""
             THEN before \cup {change.Function}
             ELSE before

\* The orders in which a range over a map with keys S may yield them
MapOrders(S) ==
    {q \in [1..Cardinality(S) -> S] : \A i, j \in 1..Cardinality(S) : q[i] = q[j] => i = j}

\* (fd FileDiff) GetModifiedFunctions(), on a file of the parse result
GetModifiedFunctions ==
    /\ dpc = "done"
    /\ modified = <<>>
    /\ \E i \in 1..Len(result) :
        \E names \in MapOrders(functionsWithChanges(result[i].Changes)) :
            modified' = <<[file |-> i, names |-> names]>>
    /\ UNCHANGED <<dpc, source, scanned, currentFile, currentFunction, lineNum, lastLine,
                   hunkFunctions, result>>
    /\ UNCHANGED notDiff

DiffNext ==
    \/ ScanFileHeader
    \/ ScanHunkHeader
    \/ ScanMetadata
    \/ ScanContent
    \/ ScanOutsideFile
    \/ ScanEOF
    \/ GetModifiedFunctions

SpecDiff == DiffInit /\ [][DiffNext]_vars

\* ------------------------------------------------------------------------
\* internal/parser/ast.go
\* ------------------------------------------------------------------------
\* ---- the syntax tree go/parser hands to the analyzer --------------------
\* type expressions
TIdent(name)  == [kind |-> "Ident", name |-> name]
TStar(x)      == [kind |-> "StarExpr", X |-> x]
TSlice(elt)   == [kind |-> "ArrayType", Len |-> <<>>, Elt |-> elt]
TSel(x, sel)  == [kind |-> "SelectorExpr", X |-> x, Sel |-> sel]
TIface        == [kind |-> "InterfaceType"]

\* a field of a field list: the names bound, and their type
Field(names, type) == [Names |-> names, Type |-> type]

\* the nodes of a body, in the order ast.Inspect visits them
Stmt(kind)        == [kind |-> kind, fun |-> <<>>, name |-> ""]
IdentNode(name)   == [kind |-> "Ident", fun |-> <<>>, name |-> name]
CallIdent(name)   == [kind |-> "CallExpr", fun |-> <<[kind |-> "Ident", name |-> name]>>, name |-> ""]
CallSel(sel)      == [kind |-> "CallExpr", fun |-> <<[kind |-> "SelectorExpr", name |-> sel]>>, name |-> ""]

\* *ast.FuncDecl. Recv and Body are <<>> (nil) or <<value>>.
FuncDecl(name, recv, params, results, body) ==
    [Name |-> name, Recv |-> recv, Params |-> params, Results |-> results, Body |-> body]

\* extractTypeString(expr)
RECURSIVE extractTypeString(_)
extractTypeString(t) ==
    CASE t.kind = "Ident"         -> t.name
      [] t.kind = "StarExpr"      -> "*" \o extractTypeString(t.X)
      [] t.kind = "ArrayType"     -> IF t.Len = <<>> THEN "[]" \o extractTypeString(t.Elt)
                                     ELSE "[...]" \o extractTypeString(t.Elt)
      [] t.kind = "InterfaceType" -> "interface{}"
      [] t.kind = "SelectorExpr"  -> extractTypeString(t.X) \o "." \o t.Sel
      [] OTHER                    -> "unknown"

ZeroComplexity ==
    [HasErrors |-> FALSE, HasPointers |-> FALSE, HasInterfaces |-> FALSE,
     HasChannels |-> FALSE, HasGoroutines |-> FALSE, HasDefers |-> FALSE,
     HasPanic |-> FALSE, CyclomaticComplexity |-> 0, ControlFlowCount |-> 0]

ControlFlowKinds ==
    {"IfStmt", "ForStmt", "RangeStmt", "SwitchStmt", "TypeSwitchStmt", "SelectStmt"}

\* analyzeComplexity, lines 272-307: the visit of one node
inspectNode(c, n) ==
    CASE n.kind = "CallExpr" ->
            LET c1 == IF n.fun[1].kind = "Ident" /\ n.fun[1].name = "panic"
                      THEN [c EXCEPT !.HasPanic = TRUE] ELSE c
            IN  IF n.fun[1].kind = "SelectorExpr" /\ n.fun[1].name = "Error"
                THEN [c1 EXCEPT !.HasErrors = TRUE] ELSE c1
      [] n.kind = "DeferStmt"       -> [c EXCEPT !.HasDefers = TRUE]
      [] n.kind = "GoStmt"          -> [c EXCEPT !.HasGoroutines = TRUE]
      [] n.kind \in ControlFlowKinds -> [c EXCEPT !.ControlFlowCount = @ + 1]
      [] n.kind = "StarExpr"        -> [c EXCEPT !.HasPointers = TRUE]
      [] n.kind = "ChanType"        -> [c EXCEPT !.HasChannels = TRUE]
      [] n.kind = "InterfaceType"   -> [c EXCEPT !.HasInterfaces = TRUE]
      [] n.kind = "Ident"           -> IF n.name = "error" THEN [c EXCEPT !.HasErrors = TRUE] ELSE c
      [] OTHER                      -> c

RECURSIVE inspectBody(_, _)
inspectBody(c, nodes) ==
    IF nodes = <<>> THEN c ELSE inspectBody(inspectNode(c, Head(nodes)), Tail(nodes))

\* analyzeComplexity(body)
analyzeComplexity(body) ==
    LET c == inspectBody(ZeroComplexity, body)
    IN  [c EXCEPT !.CyclomaticComplexity = c.ControlFlowCount + 1]

\* analyzeFunctionDecl, lines 152-191: one entry per bound name, one for
\* an unnamed field
RECURSIVE fieldInfos(_)
fieldInfos(list) ==
    IF list = <<>> THEN <<>>
    ELSE LET f == Head(list)
             typeStr == extractTypeString(f.Type)
         IN  (IF Len(f.Names) > 0
              THEN [i \in 1..Len(f.Names) |-> [Name |-> f.Names[i], Type |-> typeStr]]
              ELSE <<[Name |-> "", Type |-> typeStr]>>)
             \o fieldInfos(Tail(list))

\* A mutation of receiverOf: any receiver clause makes a method.
receiverOfAnyClause(funcDecl) ==
    IF funcDecl.Recv # <<>>
    THEN [IsMethod |-> TRUE,
          Receiver |-> IF Len(funcDecl.Recv[1]) > 0
                       THEN <<[Name |-> IF Len(funcDecl.Recv[1][1].Names) > 0
                                        THEN funcDecl.Recv[1][1].Names[1] ELSE "",
                               Type |-> extractTypeString(funcDecl.Recv[1][1].Type)]>>
                       ELSE <<>>]
    ELSE [IsMethod |-> FALSE, Receiver |-> <<>>]

\* analyzeFunctionDecl, lines 138-148: <<IsMethod, Receiver>>
receiverOf(funcDecl) ==
    IF funcDecl.Recv # <<>> /\ Len(funcDecl.Recv[1]) > 0
    THEN LET receiver == funcDecl.Recv[1][1]
         IN  [IsMethod |-> TRUE,
              Receiver |-> <<[Name |-> IF Len(receiver.Names) > 0 THEN receiver.Names[1] ELSE "",
                              Type |-> extractTypeString(receiver.Type)]>>]
    ELSE [IsMethod |-> FALSE, Receiver |-> <<>>]

\* analyzeFunctionDecl, lines 203-207: the body walk, when there is a body
bodyComplexity(funcDecl) ==
    IF funcDecl.Body # <<>> THEN analyzeComplexity(funcDecl.Body[1]) ELSE ZeroComplexity

\* A mutation of signatureBackfill: the receiver is not looked at.
signatureBackfillNoReceiver(funcInfo) ==
    LET c1 == IF \E i \in 1..Len(funcInfo.Returns) : funcInfo.Returns[i].Type = "error"
              THEN [funcInfo.Complexity EXCEPT !.HasErrors = TRUE] ELSE funcInfo.Complexity
        c2 == IF \E i \in 1..Len(funcInfo.Parameters) : HasPrefix(funcInfo.Parameters[i].Type, "*")
              THEN [c1 EXCEPT !.HasPointers = TRUE] ELSE c1
    IN  [funcInfo EXCEPT !.Complexity = c2]

\* analyzeFunctionDecl, lines 209-227: the flags the signature forces
signatureBackfill(funcInfo) ==
    LET c1 == IF \E i \in 1..Len(funcInfo.Returns) : funcInfo.Returns[i].Type = "error"
              THEN [funcInfo.Complexity EXCEPT !.HasErrors = TRUE] ELSE funcInfo.Complexity
        c2 == IF \E i \in 1..Len(funcInfo.Parameters) : HasPrefix(funcInfo.Parameters[i].Type, "*")
              THEN [c1 EXCEPT !.HasPointers = TRUE] ELSE c1
        c3 == IF funcInfo.IsMethod /\ funcInfo.Receiver # <<>>
                 /\ HasPrefix(funcInfo.Receiver[1].Type, "*")
              THEN [c2 EXCEPT !.HasPointers = TRUE] ELSE c2
    IN  [funcInfo EXCEPT !.Complexity = c3]

\* analyzeFunctionDecl(funcDecl, fset, filePath)
analyzeFunctionDecl(funcDecl, filePath) ==
    LET r == receiverOf(funcDecl) IN
    signatureBackfill(
        [Name       |-> funcDecl.Name,
         File       |-> filePath,
         Parameters |-> fieldInfos(funcDecl.Params),
         Returns    |-> IF funcDecl.Results # <<>> THEN fieldInfos(funcDecl.Results[1]) ELSE <<>>,
         IsMethod   |-> r.IsMethod,
         Receiver   |-> r.Receiver,
         Complexity |-> bodyComplexity(funcDecl)])

\* (fa *FileAnalysis) FilterFunctions, lines 425-428: the keys of nameSet
RECURSIVE nameSet(_)
nameSet(functionNames) ==
    IF functionNames = <<>> THEN {}
    ELSE nameSet(Tail(functionNames)) \cup {Head(functionNames)}

\* A mutation of FilterFunctions: the outer loop goes over the names.
RECURSIVE FilterInNameOrder(_, _)
FilterInNameOrder(functions, functionNames) ==
    IF functionNames = <<>> THEN <<>>
    ELSE SelectSeq(functions, LAMBDA fn : fn.Name = Head(functionNames))
            \o FilterInNameOrder(functions, Tail(functionNames))

\* (fa *FileAnalysis) FilterFunctions(functionNames)
RECURSIVE FilterFunctions(_, _)
FilterFunctions(functions, functionNames) ==
    IF functions = <<>> THEN <<>>
    ELSE LET fn == functions[Len(functions)]
             before == FilterFunctions(Take(functions, Len(functions) - 1), functionNames)
         IN  IF fn.Name \in nameSet(functionNames) THEN Append(before, fn) ELSE before

\* ------------------------------------------------------------------------
\* internal/config/config.go
\* ------------------------------------------------------------------------
\* ---- float64, in tenths, with NaN ----------------------------------------
Float(tenths) == [nan |-> FALSE, tenths |-> tenths]
NaN           == [nan |-> TRUE, tenths |-> 0]

\* a < b and a > b on float64: every comparison with NaN is false
FloatLess(a, b)    == ~a.nan /\ ~b.nan /\ a.tenths < b.tenths
FloatGreater(a, b) == ~a.nan /\ ~b.nan /\ a.tenths > b.tenths

\* ---- the configuration ----------------------------------------------------
\* DefaultConfig(): the fields that loading, validation and filtering use
DefaultConfig ==
    [Mode |-> "manual",
     AI |-> [Provider |-> "openai", Model |-> "gpt-4", APIKey |-> "", BaseURL |-> "",
             Temperature |-> Float(2), MaxTokens |-> 2000],
     Output |-> [Directory |-> "", Suffix |-> "_test.go", Overwrite |-> FALSE,
                 BackupExisting |-> TRUE],
     Filtering |-> [IncludeUnexported |-> FALSE, MaxComplexity |-> 15, MinComplexity |-> 1,
                    SkipPatterns |-> <<"main", "init">>]]

\* the Filtering section runGenerate may have loaded
PolicyFilterings ==
    {DefaultConfig.Filtering,
     [DefaultConfig.Filtering EXCEPT !.IncludeUnexported = TRUE],
     [DefaultConfig.Filtering EXCEPT !.MaxComplexity = 20]}

\* yaml.Unmarshal(data, config): a key of the document replaces the field, a
\* key it does not have leaves the default. A key is <<>> or <<value>>.
Pick(key, default) == IF key = <<>> THEN default ELSE key[1]

mergeYAML(doc, c) ==
    [Mode |-> Pick(doc.mode, c.Mode),
     Output |-> c.Output,
     AI |-> [c.AI EXCEPT !.Provider    = Pick(doc.provider, @),
                         !.Temperature = Pick(doc.temperature, @),
                         !.MaxTokens   = Pick(doc.max_tokens, @)],
     Filtering |-> [c.Filtering EXCEPT !.MinComplexity = Pick(doc.min_complexity, @),
                                       !.MaxComplexity = Pick(doc.max_complexity, @),
                                       !.IncludeUnexported = Pick(doc.include_unexported, @)]]

\* the documents a config file may hold
Opt(S) == {<<>>} \cup {<<x>> : x \in S}

ConfigDocs ==
    [mode : Opt({"auto", "weekly"}),
     provider : Opt({"groq", "azure"}),
     temperature : Opt({Float(-1), Float(10), Float(11), NaN}),
     max_tokens : Opt({0}),
     min_complexity : Opt({20}),
     max_complexity : Opt({10}),
     include_unexported : {<<>>}]

\* the environment: "" is an unset variable
Environments ==
    [TESTGEN_MODE : {"", "auto", "daily"}, TESTGEN_PROVIDER : {"", "local"},
     TESTGEN_API_KEY : {"", "sk-1"}, TESTGEN_MODEL : {"", "gpt-4o"},
     TESTGEN_BASE_URL : {"", "http://localhost:8080"}]

\* overrideWithEnv(config)
overrideWithEnv(c, e) ==
    [c EXCEPT !.Mode = IF e.TESTGEN_MODE # "" THEN e.TESTGEN_MODE ELSE @,
              !.AI.APIKey = IF e.TESTGEN_API_KEY # "" THEN e.TESTGEN_API_KEY ELSE @,
              !.AI.Model = IF e.TESTGEN_MODEL # "" THEN e.TESTGEN_MODEL ELSE @,
              !.AI.Provider = IF e.TESTGEN_PROVIDER # "" THEN e.TESTGEN_PROVIDER ELSE @,
              !.AI.BaseURL = IF e.TESTGEN_BASE_URL # "" THEN e.TESTGEN_BASE_URL ELSE @]

validProviders == {"openai", "anthropic", "groq", "local"}

\* validateConfig(config): the error, "" for nil
validateConfig(c) ==
    IF c.Mode # "auto" /\ c.Mode # "manual" THEN "mode must be 'auto' or 'manual'"
    ELSE IF c.AI.Provider \notin validProviders THEN "unsupported AI provider"
    ELSE IF FloatLess(c.AI.Temperature, Float(0)) \/ FloatGreater(c.AI.Temperature, Float(10))
         THEN "temperature must be between 0 and 1"
    ELSE IF c.AI.MaxTokens <= 0 THEN "max_tokens must be positive"
    ELSE IF c.Filtering.MinComplexity > c.Filtering.MaxComplexity
         THEN "min_complexity cannot be greater than max_complexity"
    ELSE ""

\* ---- ShouldIncludeFunction -------------------------------------------------
UpperLetters == "ABCDEFGHIJKLMNOPQRSTUVWXYZ"
LowerLetters == "abcdefghijklmnopqrstuvwxyz"

\* strings.ToLower, on ASCII
ToLowerChar(c) ==
    LET i == Index(UpperLetters, c) IN IF i >= 0 THEN CharAt(LowerLetters, i) ELSE c

RECURSIVE ToLower(_)
ToLower(s) == IF s = "" THEN "" ELSE ToLowerChar(Take(s, 1)) \o ToLower(Drop(s, 1))

\* filepath.Match(pattern, name), its error dropped: * is any run of
\* characters other than /, ? is one of them, [ opens a class and is
\* malformed when no ] closes it (no match); other characters are literal
RECURSIVE Match(_, _)
Match(pattern, name) ==
    IF pattern = "" THEN name = ""
    ELSE LET c == Take(pattern, 1) rest == Drop(pattern, 1) IN
         CASE c = "*" -> \E k \in 0..Len(name) :
                            /\ ~Contains(Take(name, k), "/")
                            /\ Match(rest, Drop(name, k))
           [] c = "?" -> name # "" /\ Take(name, 1) # "/" /\ Match(rest, Drop(name, 1))
           [] c = "[" -> FALSE
           [] OTHER   -> name # "" /\ Take(name, 1) = c /\ Match(rest, Drop(name, 1))

\* ShouldIncludeFunction, lines 338-346: some skip pattern from the i-th on
\* matches the name or is, case ignored, a part of it
RECURSIVE skipped(_, _, _)
skipped(patterns, funcName, i) ==
    IF i > Len(patterns) THEN FALSE
    ELSE IF Match(patterns[i], funcName) THEN TRUE
    ELSE IF Contains(ToLower(funcName), ToLower(patterns[i])) THEN TRUE
    ELSE skipped(patterns, funcName, i + 1)

\* A mutation of ShouldIncludeFunction: no lower bound on the complexity.
ShouldIncludeNoMinimum(c, funcName, exported, complexity) ==
    IF ~exported /\ ~c.Filtering.IncludeUnexported THEN FALSE
    ELSE IF complexity > c.Filtering.MaxComplexity THEN FALSE
    ELSE ~skipped(c.Filtering.SkipPatterns, funcName, 1)

\* (c *Config) ShouldIncludeFunction(funcName, isExported, complexity)
ShouldIncludeFunction(c, funcName, exported, complexity) ==
    IF ~exported /\ ~c.Filtering.IncludeUnexported THEN FALSE
    ELSE IF complexity < c.Filtering.MinComplexity \/ complexity > c.Filtering.MaxComplexity
         THEN FALSE
    ELSE ~skipped(c.Filtering.SkipPatterns, funcName, 1)

\* ------------------------------------------------------------------------
\* internal/analyzer/integration.go
\* ------------------------------------------------------------------------
\* convertToModelFunction, lines 135-141: the receiver of the model function
convertReceiver(fn) ==
    IF fn.IsMethod /\ fn.Receiver # <<>>
    THEN <<[Name |-> fn.Receiver[1].Name, Type |-> fn.Receiver[1].Type]>>
    ELSE <<>>

\* convertToModelFunction(fn, fileAnalysis)
convertToModelFunction(fn) ==
    [Name       |-> fn.Name,
     File       |-> fn.File,
     IsMethod   |-> fn.IsMethod,
     Parameters |-> [i \in 1..Len(fn.Parameters) |->
                        [Name |-> fn.Parameters[i].Name, Type |-> fn.Parameters[i].Type]],
     Returns    |-> [i \in 1..Len(fn.Returns) |->
                        [Name |-> fn.Returns[i].Name, Type |-> fn.Returns[i].Type]],
     Receiver   |-> convertReceiver(fn),
     Complexity |-> [HasErrors            |-> fn.Complexity.HasErrors,
                     HasPointers          |-> fn.Complexity.HasPointers,
                     HasInterfaces        |-> fn.Complexity.HasInterfaces,
                     HasChannels          |-> fn.Complexity.HasChannels,
                     HasGoroutines        |-> fn.Complexity.HasGoroutines,
                     CyclomaticComplexity |-> fn.Complexity.CyclomaticComplexity]]

\* ---- the declarations a parsed file is made of --------------------------
UserPtr == TStar(TIdent("User"))

ErrorResult == <<<<Field(<<>>, TIdent("error"))>>>>

\* func ValidateUser(user *User) error { three ifs returning errors.New(..) }
DeclValidateUser ==
    FuncDecl("ValidateUser", <<>>, <<Field(<<"user">>, UserPtr)>>, ErrorResult,
             <<<<Stmt("IfStmt"), IdentNode("user"), CallSel("New"), IdentNode("errors"),
                 Stmt("IfStmt"), CallSel("New"), Stmt("IfStmt"), CallSel("Contains")>>>>)

\* func (u *User) GetName() string { if u == nil { return "" }; return u.Name }
DeclGetName ==
    FuncDecl("GetName", <<<<Field(<<"u">>, UserPtr)>>>>, <<>>,
             <<<<Field(<<>>, TIdent("string"))>>>>,
             <<<<Stmt("IfStmt"), IdentNode("u"), IdentNode("nil")>>>>)

\* func (a Admin) GetName() string { return a.name }
DeclAdminGetName ==
    FuncDecl("GetName", <<<<Field(<<"a">>, TIdent("Admin"))>>>>, <<>>,
             <<<<Field(<<>>, TIdent("string"))>>>>, <<<<IdentNode("a")>>>>)

\* func processUsers(users []User, handler func(User) error) (int, error)
DeclProcessUsers ==
    FuncDecl("processUsers", <<>>,
             <<Field(<<"users">>, TSlice(TIdent("User"))), Field(<<"handler">>, [kind |-> "FuncType"])>>,
             <<<<Field(<<>>, TIdent("int")), Field(<<>>, TIdent("error"))>>>>,
             <<<<Stmt("RangeStmt"), Stmt("IfStmt"), CallIdent("handler"), IdentNode("err")>>>>)

\* func startWorker() { go func() { defer func() { if ..recover().. { panic(r) } }() }() }
DeclStartWorker ==
    FuncDecl("startWorker", <<>>, <<>>, <<>>,
             <<<<Stmt("GoStmt"), Stmt("DeferStmt"), Stmt("IfStmt"), CallIdent("recover"),
                 CallIdent("panic"), IdentNode("panic")>>>>)

\* func main() {}
DeclMain == FuncDecl("main", <<>>, <<>>, <<>>, <<<<>>>>)

\* func Sqrt(x float64) float64, implemented outside Go: no body
DeclSqrt ==
    FuncDecl("Sqrt", <<>>, <<Field(<<"x">>, TIdent("float64"))>>,
             <<<<Field(<<>>, TIdent("float64"))>>>>, <<>>)

\* func (*Conn) flush(buf *byte, n int) (err error), no body
DeclFlush ==
    FuncDecl("flush", <<<<Field(<<>>, TStar(TIdent("Conn")))>>>>,
             <<Field(<<"buf">>, TStar(TIdent("byte"))), Field(<<"n">>, TIdent("int"))>>,
             <<<<Field(<<"err">>, TIdent("error"))>>>>, <<>>)

\* func () Odd(w io.Writer) {}: a receiver clause that lists no receiver
DeclOdd ==
    FuncDecl("Odd", <<<<>>>>, <<Field(<<"w">>, TSel(TIdent("io"), "Writer"))>>, <<>>,
             <<<<Stmt("StarExpr"), Stmt("InterfaceType"), Stmt("ChanType")>>>>)

AstDecls ==
    {DeclValidateUser, DeclGetName, DeclAdminGetName, DeclProcessUsers, DeclStartWorker,
     DeclMain, DeclSqrt, DeclFlush, DeclOdd}

\* the names FilterFunctions is asked for
FilterNames == {"ValidateUser", "GetName", "Odd", "DeleteUser"}

NameLists == UNION {[1..n -> FilterNames] : n \in 0..MaxNames}

\* ---- const, var and type declarations -----------------------------------
\* initializer expressions
BasicLit(value) == [kind |-> "BasicLit", Value |-> value]
BinaryExpr      == [kind |-> "BinaryExpr"]

\* *ast.ValueSpec and *ast.TypeSpec
ValueSpec(names, values) == [kind |-> "ValueSpec", Names |-> names, Values |-> values]
TypeSpec(name, type)     == [kind |-> "TypeSpec", Name |-> name, Type |-> type]

\* *ast.GenDecl
GenDecl(tok, specs) == [Tok |-> tok, Specs |-> specs]

\* &FileAnalysis{...}, lines 90-93: Constants is made, Variables is left nil.
\* A map is <<>> (nil) or <<function from keys to values>>.
NewFileAnalysis(filePath) ==
    [File |-> filePath, Functions |-> <<>>, Constants |-> << <<>> >>, Variables |-> <<>>,
     Types |-> <<>>]

\* extractValue(expr)
extractValue(expr) ==
    CASE expr.kind = "BasicLit" -> expr.Value
      [] expr.kind = "Ident"    -> expr.name
      [] OTHER                  -> "unknown"

\* m[key] = value on a map that was made
MapSet(m, key, value) == [k \in DOMAIN m \cup {key} |-> IF k = key THEN value ELSE m[k]]

\* analyzeGenDecl, lines 387-392 and 395-400: the names of one ValueSpec from
\* the i-th on are assigned in the map; an assignment in a nil map panics
RECURSIVE assignValues(_, _, _)
assignValues(map, s, i) ==
    IF i > Len(s.Names) THEN [panic |-> FALSE, map |-> map]
    ELSE IF Len(s.Values) >= i
         THEN IF map = <<>>
              THEN [panic |-> TRUE, map |-> map]
              ELSE assignValues(<<MapSet(map[1], s.Names[i], extractValue(s.Values[i]))>>, s, i + 1)
         ELSE assignValues(map, s, i + 1)

\* analyzeGenDecl, lines 383-410: one spec of the declaration
analyzeSpec(tok, s, a) ==
    CASE s.kind = "ValueSpec" /\ tok = "const" ->
            LET r == assignValues(a.Constants, s, 1)
            IN  [panic |-> r.panic, analysis |-> [a EXCEPT !.Constants = r.map]]
      [] s.kind = "ValueSpec" /\ tok = "var" ->
            LET r == assignValues(a.Variables, s, 1)
            IN  [panic |-> r.panic, analysis |-> [a EXCEPT !.Variables = r.map]]
      [] s.kind = "TypeSpec" ->
            [panic |-> FALSE,
             analysis |-> [a EXCEPT !.Types = Append(@, [Name |-> s.Name,
                                                         Kind |-> extractTypeString(s.Type)])]]
      [] OTHER -> [panic |-> FALSE, analysis |-> a]

\* analyzeGenDecl(decl, analysis): the specs in order, up to a panic
RECURSIVE analyzeSpecs(_, _, _)
analyzeSpecs(tok, specs, a) ==
    IF specs = <<>> THEN [panic |-> FALSE, analysis |-> a]
    ELSE LET r == analyzeSpec(tok, Head(specs), a)
         IN  IF r.panic THEN r ELSE analyzeSpecs(tok, Tail(specs), r.analysis)

analyzeGenDecl(decl, a) == analyzeSpecs(decl.Tok, decl.Specs, a)

\* the declarations the walk may meet
\*   const MaxUsers = 100
GenMaxUsers == GenDecl("const", <<ValueSpec(<<"MaxUsers">>, <<BasicLit("100")>>)>>)
\*   const ( Limit, Twice = MaxUsers, 2 * MaxUsers; Spare int )
GenLimits ==
    GenDecl("const", <<ValueSpec(<<"Limit", "Twice">>, <<TIdent("MaxUsers"), BinaryExpr>>),
                       ValueSpec(<<"Spare">>, <<>>)>>)
\*   var ( counter int; Debug = false )
GenDebug ==
    GenDecl("var", <<ValueSpec(<<"counter">>, <<>>),
                     ValueSpec(<<"Debug">>, <<TIdent("false")>>)>>)
\*   type User struct{...}
GenUser == GenDecl("type", <<TypeSpec("User", [kind |-> "StructType"])>>)

GenDecls == {GenMaxUsers, GenLimits, GenDebug, GenUser}

\* ParseFile, lines 82-104: the file is read, no declaration visited yet
AstInit ==
    /\ ppc = "walk"
    /\ node = <<>>
    /\ analysis = NewFileAnalysis("user.go")
    /\ genDecls = <<>>
    /\ filtered = <<>>
    /\ functionDetails = <<>>
    /\ dpc = "idle" /\ hunkFunctions = {} /\ source = "" /\ scanned = 0 /\ currentFile = <<>>
    /\ currentFunction = "" /\ lineNum = 0 /\ lastLine = "" /\ result = <<>> /\ modified = <<>>
    /\ apc = "idle" /\ asource = "" /\ functionNamesArg = <<>> /\ lastFile = <<>> /\ filesSeen = 0 /\ declsSeen = 0 /\ ChangedFiles = <<>>
    /\ TotalFunctions = 0 /\ ModifiedFunctions = 0 /\ GenerationTargets = <<>>
    /\ cpc = "idle" /\ centry = "" /\ config = <<>> /\ cfgErr = "" /\ env = NoEnvironment /\ includeCall = <<>>
    /\ isTestCall = <<>>
    /\ wpc = "idle" /\ runs = 0 /\ wfunctions = <<>> /\ wtests = <<>> /\ testsByFile = <<>>
    /\ functionsByFile = <<>> /\ pending = {} /\ fs = <<>> /\ fs0 = <<>> /\ writeErr = ""
    /\ lastWrite = <<>>
    /\ cfgHooks = <<>> /\ gitDir = TRUE
    /\ hpc = "idle" /\ hookIndex = 0 /\ hookFiles = <<>> /\ hookFiles0 = <<>>
    /\ hookOutput = <<>> /\ hookErr = ""
    /\ gpc = "idle" /\ dryRun = FALSE /\ verbose = FALSE /\ gitRange = "" /\ flagFunction = ""
    /\ args = <<>> /\ genTargets = <<>> /\ calls = <<>> /\ printed = <<>> /\ runErr = ""

\* ParseFile, lines 109-113: the walk reaches the next function declaration
VisitFuncDecl ==
    /\ ppc = "walk"
    /\ Len(node) < MaxFuncs
    /\ \E x \in AstDecls :
        /\ node' = Append(node, x)
        /\ analysis' = [analysis EXCEPT
                            !.Functions = Append(@, analyzeFunctionDecl(x, analysis.File))]
    /\ UNCHANGED <<ppc, genDecls, filtered, functionDetails>>
    /\ UNCHANGED notAst

\* ParseFile, lines 114-116: the walk reaches the next const, var or type
\* declaration, at the top level or inside a function body
VisitGenDecl ==
    /\ ppc = "walk"
    /\ Len(genDecls) < MaxGenDecls
    /\ \E x \in GenDecls : \E r \in {analyzeGenDecl(x, analysis)} :
        /\ genDecls' = Append(genDecls, x)
        /\ analysis' = r.analysis
        /\ ppc' = IF r.panic THEN "panic" ELSE "walk"
    /\ UNCHANGED <<node, filtered, functionDetails>>
    /\ UNCHANGED notAst

\* ParseFile, line 121: the walk is over
ParseFileReturn ==
    /\ ppc = "walk"
    /\ ppc' = "parsed"
    /\ UNCHANGED <<node, genDecls, analysis, filtered, functionDetails>>
    /\ UNCHANGED notAst

\* a call of FilterFunctions on the parsed file
CallFilterFunctions ==
    /\ ppc = "parsed"
    /\ \E names \in NameLists :
        filtered' = <<[names |-> names, out |-> FilterFunctions(analysis.Functions, names)]>>
    /\ ppc' = "filtered"
    /\ UNCHANGED <<node, genDecls, analysis, functionDetails>>
    /\ UNCHANGED notAst

\* analyzeChangedFile, lines 94-98: the filtered functions are converted
ConvertFiltered ==
    /\ ppc = "filtered"
    /\ functionDetails' = [i \in 1..Len(filtered[1].out) |-> convertToModelFunction(filtered[1].out[i])]
    /\ ppc' = "converted"
    /\ UNCHANGED <<node, genDecls, analysis, filtered>>
    /\ UNCHANGED notAst

AstNext ==
    \/ VisitFuncDecl
    \/ VisitGenDecl
    \/ ParseFileReturn
    \/ CallFilterFunctions
    \/ ConvertFiltered

SpecAst == AstInit /\ [][AstNext]_vars

\* ---- the selection policy ------------------------------------------------
\* name[:n]: <<>> when the slice bound is out of range (a run-time panic)
SliceTo(name, n) == IF n > Len(name) THEN <<>> ELSE <<Take(name, n)>>

Returned(v) == [panic |-> FALSE, value |-> v]
Panicked    == [panic |-> TRUE, value |-> FALSE]

\* isTestFunction(name): && and || evaluate left to right and stop early
isTestFunction(name) ==
    IF ~(Len(name) > 4) THEN Returned(FALSE)
    ELSE IF SliceTo(name, 4) = <<>> THEN Panicked
    ELSE IF SliceTo(name, 4)[1] = "Test" THEN Returned(TRUE)
    ELSE IF SliceTo(name, 9) = <<>> THEN Panicked
    ELSE IF SliceTo(name, 9)[1] = "Benchmark" THEN Returned(TRUE)
    ELSE IF SliceTo(name, 7) = <<>> THEN Panicked
    ELSE IF SliceTo(name, 7)[1] = "Example" THEN Returned(TRUE)
    ELSE IF SliceTo(name, 4) = <<>> THEN Panicked
    ELSE Returned(SliceTo(name, 4)[1] = "Fuzz")

UpperCase ==
    {"A", "B", "C", "D", "E", "F", "G", "H", "I", "J", "K", "L", "M",
     "N", "O", "P", "Q", "R", "S", "T", "U", "V", "W", "X", "Y", "Z"}

\* isExported(name)
isExported(name) == IF name = "" THEN FALSE ELSE CharAt(name, 0) \in UpperCase

\* the complexity ceiling of shouldGenerateTest
ComplexityCeiling == 15

\* shouldGenerateTest(fn)
shouldGenerateTest(fn) ==
    IF fn.Name = "main" THEN Returned(FALSE)
    ELSE IF fn.Name = "init" THEN Returned(FALSE)
    ELSE IF isTestFunction(fn.Name).panic THEN Panicked
    ELSE IF isTestFunction(fn.Name).value THEN Returned(FALSE)
    ELSE IF ~isExported(fn.Name) THEN Returned(FALSE)
    ELSE IF fn.Complexity.CyclomaticComplexity > ComplexityCeiling THEN Returned(FALSE)
    ELSE IF Len(fn.Parameters) = 0 /\ Len(fn.Returns) = 0 THEN Returned(FALSE)
    ELSE Returned(TRUE)

\* the function descriptors of all files, files in order, and in each file
\* in the order of FunctionDetails
RECURSIVE allDetails(_)
allDetails(changedFiles) ==
    IF changedFiles = <<>> THEN <<>>
    ELSE Head(changedFiles).FunctionDetails \o allDetails(Tail(changedFiles))

\* buildGenerationTargets, lines 161-167: the loops, over the functions in
\* the order they are visited; a panic ends the run
RECURSIVE appendTargets(_, _)
appendTargets(targets, fns) ==
    IF fns = <<>> THEN [panic |-> FALSE, targets |-> targets]
    ELSE LET d == shouldGenerateTest(Head(fns)) IN
         IF d.panic THEN [panic |-> TRUE, targets |-> <<>>]
         ELSE appendTargets(IF d.value THEN Append(targets, Head(fns)) ELSE targets, Tail(fns))

\* A mutation of buildGenerationTargets: each target is put in front.
RECURSIVE prependTargets(_, _)
prependTargets(targets, fns) ==
    IF fns = <<>> THEN [panic |-> FALSE, targets |-> targets]
    ELSE LET d == shouldGenerateTest(Head(fns)) IN
         IF d.panic THEN [panic |-> TRUE, targets |-> <<>>]
         ELSE prependTargets(IF d.value THEN <<Head(fns)>> \o targets ELSE targets, Tail(fns))

buildTargetsReversed(changedFiles) == prependTargets(<<>>, allDetails(changedFiles))

\* buildGenerationTargets(changedFiles)
buildGenerationTargets(changedFiles) == appendTargets(<<>>, allDetails(changedFiles))

\* ---- the files an analysis is given ---------------------------------------
\* a body with n if statements
RECURSIVE IfBody(_)
IfBody(n) == IF n = 0 THEN <<>> ELSE <<Stmt("IfStmt")>> \o IfBody(n - 1)

\* func name(u *User) error { n ifs }
DeclChecked(name, n) ==
    FuncDecl(name, <<>>, <<Field(<<"u">>, UserPtr)>>, ErrorResult, <<IfBody(n)>>)

\* func name() {}
DeclPlain(name) == FuncDecl(name, <<>>, <<>>, <<>>, <<<<>>>>)

\* func TestFoo(t *T) {}
DeclTestFoo == FuncDecl("TestFoo", <<>>, <<Field(<<"t">>, TStar(TIdent("T")))>>, <<>>, <<<<>>>>)

\* a file with main, init, TestFoo and ValidateUser, which has one if
ScenarioBFile == <<DeclPlain("main"), DeclPlain("init"), DeclTestFoo, DeclChecked("ValidateUser", 1)>>

TargetDecls ==
    {DeclChecked("ValidateUser", 14), DeclChecked("ValidateUser", 15),
     DeclChecked("validateUser", 1), DeclChecked("GetName", 1), DeclChecked("Benchmark", 1),
     DeclPlain("DoNothing"), DeclTestFoo, DeclSqrt}

RECURSIVE Dedup(_)
Dedup(names) ==
    IF names = <<>> THEN <<>>
    ELSE LET before == Dedup(Take(names, Len(names) - 1))
         IN  IF InSeq(names[Len(names)], before) THEN before ELSE Append(before, names[Len(names)])

declNames(decls) == Dedup([i \in 1..Len(decls) |-> decls[i].Name])

\* the modified-function names a diff may give for a file with these
\* declarations: all of them, the first only, a function the file no longer
\* has, or none
ModifiedNameLists(decls) ==
    {declNames(decls), <<"Gone">>, <<>>}
        \cup (IF decls = <<>> THEN {} ELSE {<<decls[1].Name>>})

\* the path of the i-th file of the analysis
PathOf(i) == CASE i = 0 -> "user.go" [] i = 1 -> "db.go" [] OTHER -> "api.go"

\* ParseFile(filePath) on a file with the declarations decls
ParseFile(filePath, decls) ==
    [File |-> filePath,
     Functions |-> [i \in 1..Len(decls) |-> analyzeFunctionDecl(decls[i], filePath)]]

\* analyzeChangedFile, lines 83-105, once the file is parsed: <<>> (nil) or
\* <<ChangedFileAnalysis>> (without its pointer to the whole FileAnalysis)
analyzeChangedFile(filePath, fileAnalysis, modifiedFunctionNames) ==
    IF Len(modifiedFunctionNames) = 0 THEN <<>>
    ELSE LET modifiedFunctions == FilterFunctions(fileAnalysis.Functions, modifiedFunctionNames)
         IN  <<[FilePath          |-> filePath,
                ModifiedFunctions |-> modifiedFunctionNames,
                FunctionDetails   |-> [i \in 1..Len(modifiedFunctions) |->
                                          convertToModelFunction(modifiedFunctions[i])]]>>

\* the names isTestFunction is called with: every prefix of these
TestNameSeeds ==
    {"TestValidateUser", "BenchmarkProcess", "ExampleValidate", "FuzzValidate",
     "ValidateUser", "Tester", "main"}

TestNames == UNION {{Take(n, k) : k \in 0..Len(n)} : n \in TestNameSeeds}

\* the outcome of ParseFile(filePath) on a file: an error for a file that
\* is not valid Go, a panic when a var declaration has an initializer (the
\* Variables map is nil), else the FileAnalysis
parseOutcome(filePath, file) ==
    IF ~file.valid THEN [err |-> TRUE, panic |-> FALSE, analysis |-> <<>>]
    ELSE IF file.vars /\ analyzeGenDecl(GenDebug, NewFileAnalysis(filePath)).panic
         THEN [err |-> FALSE, panic |-> TRUE, analysis |-> <<>>]
         ELSE [err |-> FALSE, panic |-> FALSE, analysis |-> <<ParseFile(filePath, file.decls)>>]

\* a file of valid Go with these function declarations, a file that does
\* not parse, a file that also declares var Debug = false
GoFile(decls) == [valid |-> TRUE, vars |-> FALSE, decls |-> decls]
BrokenFile    == [valid |-> FALSE, vars |-> FALSE, decls |-> <<>>]
VarFile       == [valid |-> TRUE, vars |-> TRUE, decls |-> <<>>]

\* AnalyzeChanges, lines 50-54, and AnalyzeSpecificFunctions, lines 334-337:
\* a warning is printed and the loop continues with the next file
abortOnParseError(pc) == "error"

onParseError(pc) == pc

\* AnalyzeSpecificFunctions, lines 328-330: the files the loop skips
HasSuffix(s, suffix) ==
    Len(s) >= Len(suffix) /\ Drop(s, Len(s) - Len(suffix)) = suffix

skippedPath(filePath) == ~HasSuffix(filePath, ".go") \/ HasSuffix(filePath, "_test.go")

\* AnalyzeSpecificFunctions, lines 340-348: the functions of the file that
\* are asked for
requestedNoneWhenEmpty(functions, names) ==
    SelectSeq(functions, LAMBDA fn : InSeq(fn.Name, names))

requested(functions, names) ==
    SelectSeq(functions, LAMBDA fn : Len(names) = 0 \/ InSeq(fn.Name, names))

\* AnalyzeSpecificFunctions, lines 340-366, once the file is parsed: <<>> (no
\* entry) or <<ChangedFileAnalysis>> (without its pointer to the FileAnalysis)
analyzeSpecificFile(filePath, fileAnalysis, names) ==
    LET filteredFunctions == requested(fileAnalysis.Functions, names)
    IN  IF Len(filteredFunctions) = 0 THEN <<>>
        ELSE <<[FilePath          |-> filePath,
                ModifiedFunctions |-> [i \in 1..Len(filteredFunctions) |-> filteredFunctions[i].Name],
                FunctionDetails   |-> [i \in 1..Len(filteredFunctions) |->
                                          convertToModelFunction(filteredFunctions[i])]]>>

\* the files AnalyzeSpecificFunctions may be given
SpecificDecls ==
    {DeclChecked("ValidateUser", 1), DeclChecked("validateUser", 1),
     DeclChecked("ProcessAll", 16), DeclPlain("DoNothing")}

SpecificNameLists ==
    {<<>>, <<"ValidateUser">>, <<"DoNothing", "ValidateUser", "DoNothing">>, <<"Gone">>}

BaseOf(i) == CASE i = 0 -> "user" [] i = 1 -> "db" [] OTHER -> "api"

SpecificPaths(i) == {BaseOf(i) \o ".go", BaseOf(i) \o "_test.go", BaseOf(i) \o ".md"}

\* runGenerate, lines 80-83: the configuration is loaded. AnalyzeChanges,
\* lines 43-45, AnalyzeSpecificFunctions, lines 317-324: the result before
\* the first file
TgtInit ==
    /\ apc = "files"
    /\ asource \in {"any", "scenarioB", "specific"}
    /\ functionNamesArg \in (IF asource = "specific" THEN SpecificNameLists ELSE {<<>>})
    /\ lastFile = <<>>
    /\ filesSeen = 0
    /\ declsSeen = 0
    /\ ChangedFiles = <<>>
    /\ TotalFunctions = 0
    /\ ModifiedFunctions = 0
    /\ GenerationTargets = <<>>
    /\ isTestCall = <<>>
    /\ cpc = "idle" /\ centry = "" /\ cfgErr = "" /\ env = NoEnvironment /\ includeCall = <<>>
    /\ config \in {<<[DefaultConfig EXCEPT !.Filtering = f]>> :
                        f \in (IF asource = "specific" THEN PolicyFilterings
                                                       ELSE {DefaultConfig.Filtering})}
    /\ genDecls = <<>>
    /\ ppc = "idle" /\ node = <<>> /\ analysis = [File |-> "", Functions |-> <<>>]
    /\ filtered = <<>> /\ functionDetails = <<>>
    /\ dpc = "idle" /\ hunkFunctions = {} /\ source = "" /\ scanned = 0 /\ currentFile = <<>>
    /\ currentFunction = "" /\ lineNum = 0 /\ lastLine = "" /\ result = <<>> /\ modified = <<>>
    /\ wpc = "idle" /\ runs = 0 /\ wfunctions = <<>> /\ wtests = <<>> /\ testsByFile = <<>>
    /\ functionsByFile = <<>> /\ pending = {} /\ fs = <<>> /\ fs0 = <<>> /\ writeErr = ""
    /\ lastWrite = <<>>
    /\ cfgHooks = <<>> /\ gitDir = TRUE
    /\ hpc = "idle" /\ hookIndex = 0 /\ hookFiles = <<>> /\ hookFiles0 = <<>>
    /\ hookOutput = <<>> /\ hookErr = ""
    /\ gpc = "idle" /\ dryRun = FALSE /\ verbose = FALSE /\ gitRange = "" /\ flagFunction = ""
    /\ args = <<>> /\ genTargets = <<>> /\ calls = <<>> /\ printed = <<>> /\ runErr = ""

\* AnalyzeChanges, lines 56-60, AnalyzeSpecificFunctions, lines 350-370: the
\* entry of one file, if there is one, is added to the result
addEntry(entry) ==
    IF entry # <<>>
    THEN /\ ChangedFiles' = Append(ChangedFiles, entry[1])
         /\ TotalFunctions' = TotalFunctions + Len(entry[1].FunctionDetails)
         /\ ModifiedFunctions' = ModifiedFunctions + Len(entry[1].ModifiedFunctions)
    ELSE UNCHANGED <<ChangedFiles, TotalFunctions, ModifiedFunctions>>

\* AnalyzeChanges, lines 49-60: the file at path, with the modified names
\* names, is analyzed and added to the result
analyzeOne(path, file, names) ==
    \E p \in {parseOutcome(path, file)} :
        /\ lastFile' = <<[path |-> path, err |-> p.err, decls |-> <<>>]>>
        /\ declsSeen' = declsSeen + Len(file.decls)
        /\ filesSeen' = filesSeen + 1
        /\ IF p.panic
           THEN /\ apc' = "parsePanic"
                /\ UNCHANGED <<ChangedFiles, TotalFunctions, ModifiedFunctions>>
           ELSE IF p.err
           THEN /\ apc' = onParseError(apc)
                /\ UNCHANGED <<ChangedFiles, TotalFunctions, ModifiedFunctions>>
           ELSE /\ apc' = apc
                /\ addEntry(analyzeChangedFile(path, p.analysis[1], names))

\* AnalyzeChanges, lines 48-61: one file of the diff is analyzed
AnalyzeFile ==
    /\ apc = "files"
    /\ \/ /\ asource = "any"
          /\ filesSeen < MaxFiles
          /\ \/ \E k \in 0..(MaxDetails - declsSeen) : \E decls \in [1..k -> TargetDecls] :
                    \E names \in ModifiedNameLists(decls) :
                        analyzeOne(PathOf(filesSeen), GoFile(decls), names)
             \/ \E file \in {BrokenFile, VarFile} :
                    analyzeOne(PathOf(filesSeen), file, <<"ValidateUser">>)
       \/ /\ asource = "scenarioB"
          /\ filesSeen = 0
          /\ analyzeOne(PathOf(0), GoFile(ScenarioBFile), declNames(ScenarioBFile))
    /\ UNCHANGED <<asource, functionNamesArg, GenerationTargets, isTestCall>>
    /\ UNCHANGED notTgt

\* AnalyzeSpecificFunctions, lines 327-370: the file at path is skipped, or
\* parsed, filtered and added to the result
analyzeSpecificOne(path, file) ==
    IF skippedPath(path)
    THEN /\ lastFile' = <<[path |-> path, err |-> FALSE, decls |-> <<>>]>>
         /\ filesSeen' = filesSeen + 1
         /\ UNCHANGED <<apc, declsSeen, ChangedFiles, TotalFunctions, ModifiedFunctions>>
    ELSE \E p \in {parseOutcome(path, file)} :
        /\ lastFile' = <<[path |-> path, err |-> p.err, decls |-> file.decls]>>
        /\ declsSeen' = declsSeen + Len(file.decls)
        /\ filesSeen' = filesSeen + 1
        /\ IF p.panic
           THEN /\ apc' = "parsePanic"
                /\ UNCHANGED <<ChangedFiles, TotalFunctions, ModifiedFunctions>>
           ELSE IF p.err
           THEN /\ apc' = onParseError(apc)
                /\ UNCHANGED <<ChangedFiles, TotalFunctions, ModifiedFunctions>>
           ELSE /\ apc' = apc
                /\ addEntry(analyzeSpecificFile(path, p.analysis[1], functionNamesArg))

\* AnalyzeSpecificFunctions, lines 326-371: one file of filePaths
AnalyzeSpecificFile ==
    /\ apc = "files"
    /\ asource = "specific"
    /\ filesSeen < MaxFiles
    /\ \E path \in SpecificPaths(filesSeen) :
        \/ \E k \in 0..(MaxDetails - declsSeen) : \E decls \in [1..k -> SpecificDecls] :
                analyzeSpecificOne(path, GoFile(decls))
        \/ \E file \in {BrokenFile, VarFile} : analyzeSpecificOne(path, file)
    /\ UNCHANGED <<asource, functionNamesArg, GenerationTargets, isTestCall>>
    /\ UNCHANGED notTgt

\* AnalyzeChanges, lines 64-66, AnalyzeSpecificFunctions, lines 373-374: the
\* targets are built and the result returned
BuildTargets ==
    /\ apc = "files"
    /\ asource = "scenarioB" => filesSeen = 1
    /\ LET b == buildGenerationTargets(ChangedFiles) IN
       /\ apc' = IF b.panic THEN "panic" ELSE "done"
       /\ GenerationTargets' = b.targets
    /\ UNCHANGED <<asource, functionNamesArg, lastFile, filesSeen, declsSeen, ChangedFiles,
                   TotalFunctions, ModifiedFunctions, isTestCall>>
    /\ UNCHANGED notTgt

\* a call of isTestFunction
CallIsTestFunction ==
    /\ apc = "files"
    /\ asource = "any"
    /\ filesSeen = 0
    /\ \E name \in TestNames :
        isTestCall' = <<[name |-> name, out |-> isTestFunction(name)]>>
    /\ apc' = "called"
    /\ UNCHANGED <<asource, functionNamesArg, lastFile, filesSeen, declsSeen, ChangedFiles,
                   TotalFunctions, ModifiedFunctions, GenerationTargets>>
    /\ UNCHANGED notTgt

TgtNext ==
    \/ AnalyzeFile
    \/ AnalyzeSpecificFile
    \/ BuildTargets
    \/ CallIsTestFunction

SpecTargets == TgtInit /\ [][TgtNext]_vars



\* ------------------------------------------------------------------------
\* internal/config/config.go: loading
\* ------------------------------------------------------------------------
\* ---- LoadConfig and LoadConfigFromFile ---------------------------------------
CfgInit ==
    /\ cpc = "start"
    /\ centry \in {"LoadConfig", "LoadConfigFromFile"}
    /\ config = <<>>
    /\ cfgErr = ""
    /\ env \in Environments
    /\ includeCall = <<>>
    /\ dpc = "idle" /\ hunkFunctions = {} /\ source = "" /\ scanned = 0 /\ currentFile = <<>>
    /\ currentFunction = "" /\ lineNum = 0 /\ lastLine = "" /\ result = <<>> /\ modified = <<>>
    /\ ppc = "idle" /\ node = <<>> /\ genDecls = <<>> /\ analysis = [File |-> "", Functions |-> <<>>]
    /\ filtered = <<>> /\ functionDetails = <<>>
    /\ apc = "idle" /\ asource = "" /\ functionNamesArg = <<>> /\ lastFile = <<>> /\ filesSeen = 0
    /\ declsSeen = 0 /\ ChangedFiles = <<>> /\ TotalFunctions = 0 /\ ModifiedFunctions = 0
    /\ GenerationTargets = <<>> /\ isTestCall = <<>>
    /\ wpc = "idle" /\ runs = 0 /\ wfunctions = <<>> /\ wtests = <<>> /\ testsByFile = <<>>
    /\ functionsByFile = <<>> /\ pending = {} /\ fs = <<>> /\ fs0 = <<>> /\ writeErr = ""
    /\ lastWrite = <<>>
    /\ cfgHooks = <<>> /\ gitDir = TRUE
    /\ hpc = "idle" /\ hookIndex = 0 /\ hookFiles = <<>> /\ hookFiles0 = <<>>
    /\ hookOutput = <<>> /\ hookErr = ""
    /\ gpc = "idle" /\ dryRun = FALSE /\ verbose = FALSE /\ gitRange = "" /\ flagFunction = ""
    /\ args = <<>> /\ genTargets = <<>> /\ calls = <<>> /\ printed = <<>> /\ runErr = ""

\* LoadConfig, line 118, LoadConfigFromFile, line 141: config := DefaultConfig()
LoadDefaults ==
    /\ cpc = "start"
    /\ config' = <<DefaultConfig>>
    /\ cpc' = IF centry = "LoadConfig" THEN "find" ELSE "read"
    /\ UNCHANGED <<centry, env, cfgErr, includeCall>>
    /\ UNCHANGED notCfg

\* LoadConfig, lines 121-125: no config file is found and the defaults are
\* returned, or one is found
FindConfigFile ==
    /\ cpc = "find"
    /\ \E found \in BOOLEAN : cpc' = IF found THEN "read" ELSE "returned"
    /\ UNCHANGED <<centry, env, config, cfgErr, includeCall>>
    /\ UNCHANGED notCfg

\* loadConfigFromFile and the return on its error (LoadConfig, lines 128-130,
\* LoadConfigFromFile, lines 143-145): the file cannot be read, is no YAML
\* for a Config, or is merged into the defaults
ReadConfigFile ==
    /\ cpc = "read"
    /\ \/ \E e \in {"failed to read config file", "failed to parse YAML"} :
            /\ config' = <<>>
            /\ cfgErr' = e
            /\ cpc' = "returned"
       \/ \E doc \in ConfigDocs :
            /\ config' = <<mergeYAML(doc, config[1])>>
            /\ cfgErr' = ""
            /\ cpc' = "env"
    /\ UNCHANGED <<centry, env, includeCall>>
    /\ UNCHANGED notCfg

\* LoadConfig, line 133, LoadConfigFromFile, line 147: overrideWithEnv(config)
OverrideWithEnv ==
    /\ cpc = "env"
    /\ config' = <<overrideWithEnv(config[1], env)>>
    /\ cpc' = "validate"
    /\ UNCHANGED <<centry, env, cfgErr, includeCall>>
    /\ UNCHANGED notCfg

\* LoadConfig, lines 136-140, LoadConfigFromFile, lines 149-153: the merged
\* configuration is validated and returned, or the error is
ValidateAndReturn ==
    /\ cpc = "validate"
    /\ \E err \in {validateConfig(config[1])} :
        /\ cfgErr' = err
        /\ config' = IF err # "" THEN <<>> ELSE config
    /\ cpc' = "returned"
    /\ UNCHANGED <<centry, env, includeCall>>
    /\ UNCHANGED notCfg

CfgNext ==
    \/ LoadDefaults
    \/ FindConfigFile
    \/ ReadConfigFile
    \/ OverrideWithEnv
    \/ ValidateAndReturn

SpecConfig == CfgInit /\ [][CfgNext]_vars

\* ---- calls of ShouldIncludeFunction ----------------------------------------
SkipPatternCatalogue == {"main", "init", "Get*", "?ain", "USER", "["}

SkipPatternLists == UNION {[1..n -> SkipPatternCatalogue] : n \in 0..MaxPatterns}

IncludeNames == {"main", "Domain", "GetUser", "getUser", "Parse", "initCache"}

IncludeComplexities == {0, 1, 5, 16}

IncInit ==
    /\ cpc = "loaded"
    /\ centry = ""
    /\ config \in {<<[DefaultConfig EXCEPT !.Filtering = f]>> :
                    f \in [IncludeUnexported : BOOLEAN, MaxComplexity : {5, 15},
                           MinComplexity : {1, 5}, SkipPatterns : SkipPatternLists]}
    /\ cfgErr = ""
    /\ env = NoEnvironment
    /\ includeCall = <<>>
    /\ dpc = "idle" /\ hunkFunctions = {} /\ source = "" /\ scanned = 0 /\ currentFile = <<>>
    /\ currentFunction = "" /\ lineNum = 0 /\ lastLine = "" /\ result = <<>> /\ modified = <<>>
    /\ ppc = "idle" /\ node = <<>> /\ genDecls = <<>> /\ analysis = [File |-> "", Functions |-> <<>>]
    /\ filtered = <<>> /\ functionDetails = <<>>
    /\ apc = "idle" /\ asource = "" /\ functionNamesArg = <<>> /\ lastFile = <<>> /\ filesSeen = 0
    /\ declsSeen = 0 /\ ChangedFiles = <<>> /\ TotalFunctions = 0 /\ ModifiedFunctions = 0
    /\ GenerationTargets = <<>> /\ isTestCall = <<>>
    /\ wpc = "idle" /\ runs = 0 /\ wfunctions = <<>> /\ wtests = <<>> /\ testsByFile = <<>>
    /\ functionsByFile = <<>> /\ pending = {} /\ fs = <<>> /\ fs0 = <<>> /\ writeErr = ""
    /\ lastWrite = <<>>
    /\ cfgHooks = <<>> /\ gitDir = TRUE
    /\ hpc = "idle" /\ hookIndex = 0 /\ hookFiles = <<>> /\ hookFiles0 = <<>>
    /\ hookOutput = <<>> /\ hookErr = ""
    /\ gpc = "idle" /\ dryRun = FALSE /\ verbose = FALSE /\ gitRange = "" /\ flagFunction = ""
    /\ args = <<>> /\ genTargets = <<>> /\ calls = <<>> /\ printed = <<>> /\ runErr = ""

\* a call of ShouldIncludeFunction on the configuration
CallShouldIncludeFunction ==
    /\ cpc = "loaded"
    /\ \E funcName \in IncludeNames : \E exported \in BOOLEAN : \E complexity \in IncludeComplexities :
        includeCall' = <<[name |-> funcName, isExported |-> exported, complexity |-> complexity,
                          out |-> ShouldIncludeFunction(config[1], funcName, exported, complexity)]>>
    /\ cpc' = "called"
    /\ UNCHANGED <<centry, env, config, cfgErr>>
    /\ UNCHANGED notCfg

IncNext ==
    \/ CallShouldIncludeFunction

SpecInclude == IncInit /\ [][IncNext]_vars

\* ------------------------------------------------------------------------
\* internal/generator: writing the generated tests
\* ------------------------------------------------------------------------
\* Most functions, and most tests, one call of WriteTestFiles is given.
MaxTargets == 2

\* ---- package path/filepath, on slash-separated relative paths ---------------
\* filepath.Dir
Dir(path) ==
    LET i == LastIndex(path, "/") IN
    IF i < 0 THEN "." ELSE IF i = 0 THEN "/" ELSE Take(path, i)

\* filepath.Base
Base(path) ==
    LET i == LastIndex(path, "/") IN
    IF path = "" THEN "." ELSE IF i < 0 THEN path ELSE Drop(path, i + 1)

\* filepath.Join(dir, name): the elements joined and cleaned
Join(dir, name) ==
    IF dir = "" \/ dir = "." THEN name
    ELSE IF name = "" THEN dir
    ELSE dir \o "/" \o name

\* strings.TrimSuffix
TrimSuffix(str, suffix) ==
    IF HasSuffix(str, suffix) THEN Take(str, Len(str) - Len(suffix)) ELSE str

\* (c *Config) GetTestOutputPath(sourceFile), config.go
GetTestOutputPath(c, sourceFile) ==
    LET dir == IF c.Output.Directory # "" THEN c.Output.Directory ELSE Dir(sourceFile)
        baseName == TrimSuffix(Base(sourceFile), ".go")
        testFileName == baseName \o c.Output.Suffix
    IN Join(dir, testFileName)

\* ---- the file system ----------------------------------------------------------
\* os.WriteFile(path, content): the file system with the file written
WriteFile(fsys, path, content) == (path :> content) @@ fsys

Exists(fsys, path) == path \in DOMAIN fsys

\* the system calls that may fail in a call of writeTestFile: none, the read
\* or the write of the backup, os.MkdirAll, the write of the test file
IOFailures == {"", "readBackup", "writeBackup", "mkdir", "write"}

\* ---- buildTestFileContent -----------------------------------------------------
DetectedImports == {"reflect", "errors", "fmt", "strings", "time"}

\* the import lines of a set of packages, in every order a range over the
\* map may take
RECURSIVE importLines(_)
importLines(importSet) ==
    IF importSet = {} THEN {""}
    ELSE UNION {{"\t\"" \o imp \o "\"\n" \o rest : rest \in importLines(importSet \ {imp})} :
                    imp \in importSet}

RECURSIVE testsText(_)
testsText(tests) ==
    IF tests = <<>> THEN ""
    ELSE "// " \o Head(tests).Description \o "\n" \o Head(tests).Code \o "\n\n"
            \o testsText(Tail(tests))

\* buildTestFileContent(sourceFile, functions, tests): the contents it may
\* return (it returns no error)
buildTestFileContent(sourceFile, functions, tests) ==
    LET packageName == IF Len(functions) > 0 THEN functions[1].Package ELSE "main"
        importSet == {imp \in DetectedImports :
                        \E i \in 1..Len(tests) : Contains(tests[i].Code, imp \o ".")}
    IN {"package " \o packageName \o "\n\n" \o "import (\n" \o "\t\"testing\"\n" \o lines
            \o ")\n\n" \o "// Tests generated by testgen\n\n" \o testsText(tests) :
        lines \in importLines(importSet)}

\* ---- backupFile and writeTestFile -----------------------------------------------
WriteOutcome(fsys, err, ops, path) == [fs |-> fsys, err |-> err, ops |-> ops, path |-> path]

\* backupFile(filePath)
backupFile(fsys, filePath, fail) ==
    IF ~Exists(fsys, filePath) THEN WriteOutcome(fsys, "", <<>>, filePath)
    ELSE IF fail = "readBackup"
         THEN WriteOutcome(fsys, "failed to read file for backup", <<>>, filePath)
    ELSE IF fail = "writeBackup"
         THEN WriteOutcome(fsys, "failed to write backup file", <<>>, filePath)
    ELSE WriteOutcome(WriteFile(fsys, filePath \o ".backup", fsys[filePath]), "",
                      <<"backup">>, filePath)

\* A mutation of writeTestFile: an existing test file is not looked for.
writeTestFileUnchecked(fsys, c, sourceFile, content, fail) ==
    LET testFilePath == GetTestOutputPath(c, sourceFile)
        b == IF c.Output.BackupExisting THEN backupFile(fsys, testFilePath, fail)
             ELSE WriteOutcome(fsys, "", <<>>, testFilePath)
    IN IF b.err # ""
       THEN WriteOutcome(b.fs, "failed to backup existing file", b.ops, testFilePath)
       ELSE IF fail = "mkdir"
       THEN WriteOutcome(b.fs, "failed to create test directory", b.ops, testFilePath)
       ELSE IF fail = "write"
       THEN WriteOutcome(b.fs, "failed to write test file", b.ops, testFilePath)
       ELSE WriteOutcome(WriteFile(b.fs, testFilePath, content), "", b.ops \o <<"write">>,
                         testFilePath)

\* writeTestFile(sourceFile, functions, tests), with the content that
\* buildTestFileContent returned: the file system after it, its error ("" is
\* nil) and the writes it made
writeTestFile(fsys, c, sourceFile, content, fail) ==
    LET testFilePath == GetTestOutputPath(c, sourceFile) IN
    IF Exists(fsys, testFilePath) /\ ~c.Output.Overwrite
    THEN WriteOutcome(fsys, "test file already exists", <<>>, testFilePath)
    ELSE LET b == IF c.Output.BackupExisting THEN backupFile(fsys, testFilePath, fail)
                  ELSE WriteOutcome(fsys, "", <<>>, testFilePath)
         IN IF b.err # ""
            THEN WriteOutcome(b.fs, "failed to backup existing file", b.ops, testFilePath)
            ELSE IF fail = "mkdir"
            THEN WriteOutcome(b.fs, "failed to create test directory", b.ops, testFilePath)
            ELSE IF fail = "write"
            THEN WriteOutcome(b.fs, "failed to write test file", b.ops, testFilePath)
            ELSE WriteOutcome(WriteFile(b.fs, testFilePath, content), "",
                              b.ops \o <<"write">>, testFilePath)

\* ---- WriteTestFiles ---------------------------------------------------------------
SourceFiles == {"user.go", "pkg/user.go"}

FunctionInfos == {[Name |-> "Run", File |-> f, Package |-> IF Dir(f) = "." THEN "main" ELSE Dir(f)] :
                    f \in SourceFiles}

GeneratedTests ==
    {[Description |-> "Test for Run", Code |-> "func TestRun(t *testing.T) {}"],
     [Description |-> "Test for Run fails",
      Code |-> "func TestRunFails(t *testing.T) { fmt.Println(errors.New(\"x\")) }"]}

\* the test files that may exist before the call
OldTestFiles == {"user_test.go", "pkg/user_test.go", "tests/user_test.go"}

OutputConfigs ==
    [Directory : {"", "tests"}, Suffix : {"_test.go"}, Overwrite : BOOLEAN,
     BackupExisting : BOOLEAN]

\* WriteTestFiles, lines 56-61: the tests and functions of index i <
\* len(tests), grouped by fn.File, from the i-th function on
RECURSIVE groupByFile(_, _, _, _)
groupByFile(functions, items, i, byFile) ==
    IF i > Len(functions) \/ i > Len(items) THEN byFile
    ELSE LET file == functions[i].File
             sofar == IF file \in DOMAIN byFile THEN byFile[file] ELSE <<>>
         IN groupByFile(functions, items, i + 1, (file :> Append(sofar, items[i])) @@ byFile)

WrInit ==
    /\ wpc = "start"
    /\ runs = 1
    /\ \E n \in 0..MaxTargets : wfunctions \in [1..n -> FunctionInfos]
    /\ \E n \in 0..MaxTargets : wtests \in [1..n -> GeneratedTests]
    /\ config \in {<<[DefaultConfig EXCEPT !.Output = o]>> : o \in OutputConfigs}
    /\ \E old \in SUBSET OldTestFiles : fs = [path \in old |-> "// written by hand: " \o path]
    /\ fs0 = fs
    /\ testsByFile = <<>> /\ functionsByFile = <<>> /\ pending = {}
    /\ writeErr = "" /\ lastWrite = <<>>
    /\ cpc = "idle" /\ centry = "" /\ cfgErr = "" /\ env = NoEnvironment /\ includeCall = <<>>
    /\ dpc = "idle" /\ hunkFunctions = {} /\ source = "" /\ scanned = 0 /\ currentFile = <<>>
    /\ currentFunction = "" /\ lineNum = 0 /\ lastLine = "" /\ result = <<>> /\ modified = <<>>
    /\ ppc = "idle" /\ node = <<>> /\ genDecls = <<>> /\ analysis = [File |-> "", Functions |-> <<>>]
    /\ filtered = <<>> /\ functionDetails = <<>>
    /\ apc = "idle" /\ asource = "" /\ functionNamesArg = <<>> /\ lastFile = <<>> /\ filesSeen = 0
    /\ declsSeen = 0 /\ ChangedFiles = <<>> /\ TotalFunctions = 0 /\ ModifiedFunctions = 0
    /\ GenerationTargets = <<>> /\ isTestCall = <<>>
    /\ cfgHooks = <<>> /\ gitDir = TRUE
    /\ hpc = "idle" /\ hookIndex = 0 /\ hookFiles = <<>> /\ hookFiles0 = <<>>
    /\ hookOutput = <<>> /\ hookErr = ""
    /\ gpc = "idle" /\ dryRun = FALSE /\ verbose = FALSE /\ gitRange = "" /\ flagFunction = ""
    /\ args = <<>> /\ genTargets = <<>> /\ calls = <<>> /\ printed = <<>> /\ runErr = ""

\* WriteTestFiles, lines 53-61: the tests are grouped by source file
GroupTests ==
    /\ wpc = "start"
    /\ testsByFile' = groupByFile(wfunctions, wtests, 1, <<>>)
    /\ functionsByFile' = groupByFile(wfunctions, wfunctions, 1, <<>>)
    /\ pending' = DOMAIN testsByFile'
    /\ wpc' = "writing"
    /\ UNCHANGED <<runs, wfunctions, wtests, fs, fs0, writeErr, lastWrite, config>>
    /\ UNCHANGED notWr

\* WriteTestFiles, lines 64-68: one turn of the range loop, on a source file
\* in the order the map gives; the error of writeTestFile is returned
WriteOneFile ==
    /\ wpc = "writing"
    /\ \E sourceFile \in pending : \E fail \in IOFailures :
       \E content \in buildTestFileContent(sourceFile, functionsByFile[sourceFile],
                                           testsByFile[sourceFile]) :
       \E out \in {writeTestFile(fs, config[1], sourceFile, content, fail)} :
            /\ fs' = out.fs
            /\ lastWrite' = <<[path |-> out.path, err |-> out.err, ops |-> out.ops]>>
            /\ IF out.err # ""
               THEN /\ writeErr' = "failed to write test file for " \o sourceFile
                    /\ wpc' = "returned"
                    /\ pending' = pending
               ELSE /\ pending' = pending \ {sourceFile}
                    /\ UNCHANGED <<writeErr, wpc>>
    /\ UNCHANGED <<runs, wfunctions, wtests, testsByFile, functionsByFile, fs0, config>>
    /\ UNCHANGED notWr

\* WriteTestFiles, line 70: return nil
WriteReturn ==
    /\ wpc = "writing"
    /\ pending = {}
    /\ wpc' = "returned"
    /\ UNCHANGED <<runs, wfunctions, wtests, testsByFile, functionsByFile, pending, fs, fs0,
                   writeErr, lastWrite, config>>
    /\ UNCHANGED notWr

WrNext ==
    \/ GroupTests
    \/ WriteOneFile
    \/ WriteReturn

SpecWrite == WrInit /\ [][WrNext]_vars

\* ------------------------------------------------------------------------
\* internal/generator: successive calls of WriteTestFiles with
\* Overwrite and BackupExisting
\* ------------------------------------------------------------------------
BackupConfig ==
    [DefaultConfig EXCEPT !.Output = [Directory |-> "", Suffix |-> "_test.go",
                                      Overwrite |-> TRUE, BackupExisting |-> TRUE]]

RewriteInit ==
    /\ wpc = "start"
    /\ runs = 1
    /\ \E n \in 0..MaxTargets : wfunctions \in [1..n -> FunctionInfos]
    /\ \E n \in 0..MaxTargets : wtests \in [1..n -> GeneratedTests]
    /\ config = <<BackupConfig>>
    /\ \E old \in SUBSET OldTestFiles : fs = [path \in old |-> "// written by hand: " \o path]
    /\ fs0 = fs
    /\ testsByFile = <<>> /\ functionsByFile = <<>> /\ pending = {}
    /\ writeErr = "" /\ lastWrite = <<>>
    /\ cpc = "idle" /\ centry = "" /\ cfgErr = "" /\ env = NoEnvironment /\ includeCall = <<>>
    /\ dpc = "idle" /\ hunkFunctions = {} /\ source = "" /\ scanned = 0 /\ currentFile = <<>>
    /\ currentFunction = "" /\ lineNum = 0 /\ lastLine = "" /\ result = <<>> /\ modified = <<>>
    /\ ppc = "idle" /\ node = <<>> /\ genDecls = <<>> /\ analysis = [File |-> "", Functions |-> <<>>]
    /\ filtered = <<>> /\ functionDetails = <<>>
    /\ apc = "idle" /\ asource = "" /\ functionNamesArg = <<>> /\ lastFile = <<>> /\ filesSeen = 0
    /\ declsSeen = 0 /\ ChangedFiles = <<>> /\ TotalFunctions = 0 /\ ModifiedFunctions = 0
    /\ GenerationTargets = <<>> /\ isTestCall = <<>>
    /\ cfgHooks = <<>> /\ gitDir = TRUE
    /\ hpc = "idle" /\ hookIndex = 0 /\ hookFiles = <<>> /\ hookFiles0 = <<>>
    /\ hookOutput = <<>> /\ hookErr = ""
    /\ gpc = "idle" /\ dryRun = FALSE /\ verbose = FALSE /\ gitRange = "" /\ flagFunction = ""
    /\ args = <<>> /\ genTargets = <<>> /\ calls = <<>> /\ printed = <<>> /\ runErr = ""

\* generate is run again for the same functions: WriteTestFiles is called
\* once more, here with the same functions and tests
RunAgain ==
    /\ wpc = "returned"
    /\ runs < MaxRuns
    /\ runs' = runs + 1
    /\ wpc' = "start"
    /\ testsByFile' = <<>> /\ functionsByFile' = <<>> /\ pending' = {}
    /\ writeErr' = "" /\ lastWrite' = <<>>
    /\ UNCHANGED <<wfunctions, wtests, fs, fs0, config>>
    /\ UNCHANGED notWr

RewriteNext ==
    \/ GroupTests
    \/ WriteOneFile
    \/ WriteReturn
    \/ RunAgain

SpecRewrite == RewriteInit /\ [][RewriteNext]_vars

\* ------------------------------------------------------------------------
\* cmd/testgen: uninstallGitHooks
\* ------------------------------------------------------------------------
hooksDir == ".git/hooks"

hookNames == <<"post-commit", "pre-push", "pre-commit">>

\* the files .git/hooks may hold when the command runs
HookFileNames == {"post-commit", "pre-push", "pre-commit", "commit-msg"}

HookContents ==
    {"#!/bin/sh\n# testgen post-commit hook\nexec testgen generate\n",
     "#!/bin/sh\n# Some other hook\necho \"other hook\"\n",
     "#!/bin/sh\n# TestGen\n"}

HookFile(content, readable) == [content |-> content, readable |-> readable]

\* os.ReadFile(hookPath): the content and the error ("" is nil)
ReadFile(files, name) ==
    IF name \notin DOMAIN files THEN [content |-> "", err |-> "no such file or directory"]
    ELSE IF ~files[name].readable THEN [content |-> "", err |-> "permission denied"]
    ELSE [content |-> files[name].content, err |-> ""]

\* A mutation of isOurHook: every hook that can be read counts as ours.
isAnyHook(files, name) == ReadFile(files, name).err = ""

\* uninstallGitHooks, lines 436-437: the hook is read without error and its
\* content contains "testgen"
isOurHook(files, name) ==
    LET read == ReadFile(files, name) IN
    read.err = "" /\ Contains(read.content, "testgen")

\* os.Remove(hookPath)
Remove(files, name) == [n \in DOMAIN files \ {name} |-> files[n]]

HookInit ==
    /\ hpc = "loop"
    /\ hookIndex = 0
    /\ \E present \in SUBSET HookFileNames :
            hookFiles \in [present -> {HookFile(c, r) : c \in HookContents, r \in BOOLEAN}]
    /\ hookFiles0 = hookFiles
    /\ hookOutput = <<>>
    /\ hookErr = ""
    /\ cfgHooks = <<>>
    /\ gitDir = TRUE
    /\ cpc = "idle" /\ centry = "" /\ config = <<>> /\ cfgErr = "" /\ env = NoEnvironment /\ includeCall = <<>>
    /\ dpc = "idle" /\ hunkFunctions = {} /\ source = "" /\ scanned = 0 /\ currentFile = <<>>
    /\ currentFunction = "" /\ lineNum = 0 /\ lastLine = "" /\ result = <<>> /\ modified = <<>>
    /\ ppc = "idle" /\ node = <<>> /\ genDecls = <<>> /\ analysis = [File |-> "", Functions |-> <<>>]
    /\ filtered = <<>> /\ functionDetails = <<>>
    /\ apc = "idle" /\ asource = "" /\ functionNamesArg = <<>> /\ lastFile = <<>> /\ filesSeen = 0
    /\ declsSeen = 0 /\ ChangedFiles = <<>> /\ TotalFunctions = 0 /\ ModifiedFunctions = 0
    /\ GenerationTargets = <<>> /\ isTestCall = <<>>
    /\ wpc = "idle" /\ runs = 0 /\ wfunctions = <<>> /\ wtests = <<>> /\ testsByFile = <<>>
    /\ functionsByFile = <<>> /\ pending = {} /\ fs = <<>> /\ fs0 = <<>> /\ writeErr = ""
    /\ lastWrite = <<>>
    /\ gpc = "idle" /\ dryRun = FALSE /\ verbose = FALSE /\ gitRange = "" /\ flagFunction = ""
    /\ args = <<>> /\ genTargets = <<>> /\ calls = <<>> /\ printed = <<>> /\ runErr = ""

\* uninstallGitHooks, lines 432-446: one turn of the loop over hookNames;
\* os.Remove removes the hook or fails, and a failure is only printed
UninstallHook ==
    /\ hpc = "loop"
    /\ hookIndex < Len(hookNames)
    /\ LET hookName == hookNames[hookIndex + 1] IN
       IF isOurHook(hookFiles, hookName)
       THEN \E removed \in BOOLEAN :
              IF removed
              THEN /\ hookFiles' = Remove(hookFiles, hookName)
                   /\ hookOutput' = Append(hookOutput, "Removed " \o hookName \o " hook")
              ELSE /\ hookFiles' = hookFiles
                   /\ hookOutput' = Append(hookOutput,
                                        "Warning: failed to remove " \o hookName \o " hook")
       ELSE UNCHANGED <<hookFiles, hookOutput>>
    /\ hookIndex' = hookIndex + 1
    /\ UNCHANGED <<hpc, cfgHooks, gitDir, hookFiles0, hookErr>>
    /\ UNCHANGED notHook

\* uninstallGitHooks, line 448: return nil
UninstallReturn ==
    /\ hpc = "loop"
    /\ hookIndex = Len(hookNames)
    /\ hpc' = "returned"
    /\ hookErr' = ""
    /\ UNCHANGED <<cfgHooks, gitDir, hookIndex, hookFiles, hookFiles0, hookOutput>>
    /\ UNCHANGED notHook

HookNext ==
    \/ UninstallHook
    \/ UninstallReturn

SpecHooks == HookInit /\ [][HookNext]_vars

\* ------------------------------------------------------------------------
\* cmd/testgen: installGitHooks, then uninstallGitHooks
\* ------------------------------------------------------------------------
\* the names cfg.Hooks is drawn from: the configuration does not check them
HookChoices == {"pre-commit", "commit-msg"}

HookLists == UNION {[1..n -> HookChoices] : n \in 0..MaxHooks}

InstallContents ==
    {"#!/bin/sh\n# testgen pre-commit hook\nexec testgen generate\n",
     "#!/bin/sh\n# Some other hook\necho \"other hook\"\n"}

\* installGitHooks, lines 415-419: the script written for hookName
hookContent(hookName) ==
    "#!/bin/sh\n# testgen " \o hookName \o " hook\nexec testgen generate\n"

\* os.WriteFile(hookPath, content, 0755): the file has the content; the mode
\* is given to a file that is created and kept for a file that exists
WriteHook(files, name, content) ==
    LET readable == IF name \in DOMAIN files THEN files[name].readable ELSE TRUE IN
    [n \in DOMAIN files \cup {name} |->
        IF n = name THEN HookFile(content, readable) ELSE files[n]]

InstallInit ==
    /\ hpc = "install"
    /\ cfgHooks \in HookLists
    /\ gitDir \in BOOLEAN
    /\ hookIndex = 0
    /\ IF gitDir
       THEN \E present \in SUBSET HookFileNames :
                hookFiles \in [present -> {HookFile(c, TRUE) : c \in InstallContents}]
       ELSE hookFiles = <<>>
    /\ hookFiles0 = hookFiles
    /\ hookOutput = <<>>
    /\ hookErr = ""
    /\ cpc = "idle" /\ centry = "" /\ config = <<>> /\ cfgErr = "" /\ env = NoEnvironment /\ includeCall = <<>>
    /\ dpc = "idle" /\ hunkFunctions = {} /\ source = "" /\ scanned = 0 /\ currentFile = <<>>
    /\ currentFunction = "" /\ lineNum = 0 /\ lastLine = "" /\ result = <<>> /\ modified = <<>>
    /\ ppc = "idle" /\ node = <<>> /\ genDecls = <<>> /\ analysis = [File |-> "", Functions |-> <<>>]
    /\ filtered = <<>> /\ functionDetails = <<>>
    /\ apc = "idle" /\ asource = "" /\ functionNamesArg = <<>> /\ lastFile = <<>> /\ filesSeen = 0
    /\ declsSeen = 0 /\ ChangedFiles = <<>> /\ TotalFunctions = 0 /\ ModifiedFunctions = 0
    /\ GenerationTargets = <<>> /\ isTestCall = <<>>
    /\ wpc = "idle" /\ runs = 0 /\ wfunctions = <<>> /\ wtests = <<>> /\ testsByFile = <<>>
    /\ functionsByFile = <<>> /\ pending = {} /\ fs = <<>> /\ fs0 = <<>> /\ writeErr = ""
    /\ lastWrite = <<>>
    /\ gpc = "idle" /\ dryRun = FALSE /\ verbose = FALSE /\ gitRange = "" /\ flagFunction = ""
    /\ args = <<>> /\ genTargets = <<>> /\ calls = <<>> /\ printed = <<>> /\ runErr = ""

\* installGitHooks, lines 398-407: os.Stat(".git") and os.MkdirAll(hooksDir)
InstallBegin ==
    /\ hpc = "install"
    /\ IF ~gitDir
       THEN hpc' = "failed" /\ hookErr' = "not a git repository"
       ELSE \E made \in BOOLEAN :
              IF made
              THEN hpc' = "install-loop" /\ hookErr' = hookErr
              ELSE hpc' = "failed" /\ hookErr' = "failed to create hooks directory"
    /\ UNCHANGED <<cfgHooks, gitDir, hookIndex, hookFiles, hookFiles0, hookOutput>>
    /\ UNCHANGED notHook

\* installGitHooks, lines 410-424: one turn of the loop over cfg.Hooks;
\* os.WriteFile writes the script or fails, and a failure is returned
InstallHook ==
    /\ hpc = "install-loop"
    /\ hookIndex < Len(cfgHooks)
    /\ LET hookName == cfgHooks[hookIndex + 1] IN
       \E written \in BOOLEAN :
          IF written
          THEN /\ hookFiles' = WriteHook(hookFiles, hookName, hookContent(hookName))
               /\ hookOutput' = Append(hookOutput, "Installed " \o hookName \o " hook")
               /\ hookIndex' = hookIndex + 1
               /\ UNCHANGED <<hpc, hookErr>>
          ELSE /\ hpc' = "failed"
               /\ hookErr' = "failed to install " \o hookName \o " hook"
               /\ UNCHANGED <<hookFiles, hookOutput, hookIndex>>
    /\ UNCHANGED <<cfgHooks, gitDir, hookFiles0>>
    /\ UNCHANGED notHook

\* installGitHooks, line 426: return nil
InstallReturn ==
    /\ hpc = "install-loop"
    /\ hookIndex = Len(cfgHooks)
    /\ hpc' = "installed"
    /\ hookErr' = ""
    /\ UNCHANGED <<cfgHooks, gitDir, hookIndex, hookFiles, hookFiles0, hookOutput>>
    /\ UNCHANGED notHook

\* the hooks command is run again with --uninstall after an installation
\* that succeeded: uninstallGitHooks starts its loop
RunUninstall ==
    /\ hpc = "installed"
    /\ hpc' = "loop"
    /\ hookIndex' = 0
    /\ UNCHANGED <<cfgHooks, gitDir, hookFiles, hookFiles0, hookOutput, hookErr>>
    /\ UNCHANGED notHook

InstallNext ==
    \/ InstallBegin
    \/ InstallHook
    \/ InstallReturn
    \/ RunUninstall
    \/ UninstallHook
    \/ UninstallReturn

SpecInstall == InstallInit /\ [][InstallNext]_vars

\* ------------------------------------------------------------------------
\* cmd/testgen: runGenerate
\* ------------------------------------------------------------------------
\* %d, for the small numbers printed here
Itoa(n) == CharAt("0123456789", n)

\* strings.Split(s, "..")
RECURSIVE SplitDots(_)
SplitDots(str) ==
    LET i == Index(str, "..") IN
    IF i = -1 THEN <<str>> ELSE <<Take(str, i)>> \o SplitDots(Drop(str, i + 2))

DefaultRange == "HEAD~1..HEAD"

\* parseGitRange(rangeFlag, cfg): <<fromRef, toRef>>
parseGitRange(rangeFlag, defaultRange) ==
    IF rangeFlag # "" /\ Len(SplitDots(rangeFlag)) = 2 THEN SplitDots(rangeFlag)
    ELSE IF Len(SplitDots(defaultRange)) = 2 THEN SplitDots(defaultRange)
    ELSE <<"HEAD~1", "HEAD">>

\* A mutation of afterSummary: the dry-run flag is not looked at.
afterSummaryIgnoringDryRun(targets, dry) ==
    IF Len(targets) = 0 THEN "none" ELSE "generate"

\* runGenerate, lines 128-136: with no target it returns, with --dry-run it
\* returns, and otherwise it goes on to generate
afterSummary(targets, dry) ==
    IF Len(targets) = 0 THEN "none"
    ELSE IF dry THEN "dry"
    ELSE "generate"

\* the generation targets an analysis may return
TargetNames == {"ValidateUser", "GetName"}

TargetLists == UNION {[1..n -> TargetNames] : n \in 0..MaxTargets}

GenInit ==
    /\ gpc = "start"
    /\ dryRun \in BOOLEAN
    /\ verbose \in BOOLEAN
    /\ gitRange \in {"", "main..feature", "HEAD~3"}
    /\ flagFunction \in {"", "ValidateUser"}
    /\ args \in {<<>>, <<"user.go">>}
    /\ genTargets = <<>>
    /\ calls = <<>>
    /\ printed = <<>>
    /\ runErr = ""
    /\ config = <<>>
    /\ cpc = "idle" /\ centry = "" /\ cfgErr = "" /\ env = NoEnvironment /\ includeCall = <<>>
    /\ dpc = "idle" /\ hunkFunctions = {} /\ source = "" /\ scanned = 0 /\ currentFile = <<>>
    /\ currentFunction = "" /\ lineNum = 0 /\ lastLine = "" /\ result = <<>> /\ modified = <<>>
    /\ ppc = "idle" /\ node = <<>> /\ genDecls = <<>> /\ analysis = [File |-> "", Functions |-> <<>>]
    /\ filtered = <<>> /\ functionDetails = <<>>
    /\ apc = "idle" /\ asource = "" /\ functionNamesArg = <<>> /\ lastFile = <<>> /\ filesSeen = 0
    /\ declsSeen = 0 /\ ChangedFiles = <<>> /\ TotalFunctions = 0 /\ ModifiedFunctions = 0
    /\ GenerationTargets = <<>> /\ isTestCall = <<>>
    /\ wpc = "idle" /\ runs = 0 /\ wfunctions = <<>> /\ wtests = <<>> /\ testsByFile = <<>>
    /\ functionsByFile = <<>> /\ pending = {} /\ fs = <<>> /\ fs0 = <<>> /\ writeErr = ""
    /\ lastWrite = <<>>
    /\ cfgHooks = <<>> /\ gitDir = TRUE
    /\ hpc = "idle" /\ hookIndex = 0 /\ hookFiles = <<>> /\ hookFiles0 = <<>>
    /\ hookOutput = <<>> /\ hookErr = ""

\* runGenerate, lines 80-88: the configuration is loaded, or the error of
\* loadConfig is returned
GenLoadConfig ==
    /\ gpc = "start"
    /\ calls' = Append(calls, "loadConfig")
    /\ \/ /\ runErr' = "failed to load config"
          /\ gpc' = "returned"
          /\ UNCHANGED <<config, printed>>
       \/ /\ config' = <<DefaultConfig>>
          /\ printed' = IF verbose
                        THEN Append(printed, "Using config: " \o DefaultConfig.Mode \o " mode, "
                                        \o DefaultConfig.AI.Provider \o " provider")
                        ELSE printed
          /\ gpc' = "analyze"
          /\ UNCHANGED runErr
    /\ UNCHANGED <<dryRun, verbose, gitRange, flagFunction, args, genTargets>>
    /\ UNCHANGED notGen

\* runGenerate, lines 91-136: the analysis of the named files or of the git
\* range, its summary, and the return when there is no target or when
\* --dry-run is set
GenAnalyze ==
    /\ gpc = "analyze"
    /\ LET specific == Len(args) > 0
           refs     == parseGitRange(gitRange, DefaultRange)
           analysisCall == IF specific THEN "AnalyzeSpecificFunctions" ELSE "AnalyzeChanges"
           said == IF ~verbose THEN <<>>
                   ELSE IF specific
                   THEN <<"Analyzing " \o Itoa(Len(args)) \o " specific files">>
                   ELSE <<"Analyzing git range: " \o refs[1] \o ".." \o refs[2]>>
           summary == IF verbose \/ dryRun THEN <<"PrintAnalysisSummary">> ELSE <<>>
       IN \/ /\ runErr' = IF specific THEN "failed to analyze files"
                                      ELSE "failed to analyze git changes"
             /\ calls' = Append(calls, analysisCall)
             /\ gpc' = "returned"
             /\ UNCHANGED <<genTargets, printed>>
          \/ \E targets \in TargetLists :
                /\ genTargets' = targets
                /\ calls' = Append(calls, analysisCall) \o summary
                /\ \E then \in {afterSummary(targets, dryRun)} :
                    CASE then = "none" ->
                            /\ printed' = printed \o said
                                    \o <<"No functions found that need test generation.">>
                            /\ gpc' = "returned"
                      [] then = "dry" ->
                            /\ printed' = printed \o said
                                    \o <<"Would generate tests for " \o Itoa(Len(targets))
                                            \o " functions">>
                            /\ gpc' = "returned"
                      [] OTHER ->
                            /\ printed' = printed \o said
                            /\ gpc' = "generate"
                /\ UNCHANGED runErr
    /\ UNCHANGED <<dryRun, verbose, gitRange, flagFunction, args, config>>
    /\ UNCHANGED notGen

\* runGenerate, lines 139-163: the generator is made and GenerateTests is
\* called; its error is returned
GenGenerateTests ==
    /\ gpc = "generate"
    /\ calls' = calls \o <<"NewTestGenerator", "GetProjectContext", "GenerateTests">>
    /\ LET start == Append(printed, "Generating tests for " \o Itoa(Len(genTargets))
                                        \o " functions...")
       IN \/ /\ runErr' = "failed to generate tests"
             /\ printed' = start
             /\ gpc' = "returned"
          \/ /\ printed' = IF verbose
                           THEN Append(start, "AI Response: ok (confidence: 0.90)")
                           ELSE start
             /\ gpc' = "write"
             /\ UNCHANGED runErr
    /\ UNCHANGED <<dryRun, verbose, gitRange, flagFunction, args, genTargets, config>>
    /\ UNCHANGED notGen

\* runGenerate, lines 165-172: WriteTestFiles is called on the targets and
\* the tests of the response, and the number of tests is printed
GenWriteTestFiles ==
    /\ gpc = "write"
    /\ calls' = Append(calls, "WriteTestFiles")
    /\ \/ /\ runErr' = "failed to write test files"
          /\ UNCHANGED printed
       \/ \E nTests \in 0..MaxTargets :
            /\ printed' = Append(printed, "Successfully generated " \o Itoa(nTests)
                                            \o " test functions")
            /\ UNCHANGED runErr
    /\ gpc' = "returned"
    /\ UNCHANGED <<dryRun, verbose, gitRange, flagFunction, args, genTargets, config>>
    /\ UNCHANGED notGen

GenNext ==
    \/ GenLoadConfig
    \/ GenAnalyze
    \/ GenGenerateTests
    \/ GenWriteTestFiles

SpecGenerate == GenInit /\ [][GenNext]_vars

\* ------------------------------------------------------------------------
\* Properties of the diff parser (checked under SpecDiff)
\* ------------------------------------------------------------------------
Occurrences(seq, x) == Cardinality({i \in 1..Len(seq) : seq[i] = x})

Range(seq) == {seq[i] : i \in 1..Len(seq)}

\* C1: in the result ParseDiff returns, every change's Function tag is the
\* empty string or one of the Functions of the FileDiff the change is in.
C1_TagsAreSeen ==
    dpc = "done" =>
        \A i \in 1..Len(result) : \A j \in 1..Len(result[i].Changes) :
            LET tag == result[i].Changes[j].Function
            IN  tag = "" \/ InSeq(tag, result[i].Functions)

\* C1's case: a returned file with a line tagged from the hunk header and a
\* later line tagged from a declaration line.
C1_Witness ==
    /\ dpc = "done"
    /\ \E i \in 1..Len(result) : \E j, k \in 1..Len(result[i].Changes) :
        /\ j < k
        /\ result[i].Changes[j].Function = "ValidateUser"
        /\ result[i].Changes[k].Function = "GetName"

\* C2: GetModifiedFunctions returns each non-empty tag of an Added or Removed
\* change exactly once and nothing else, and only names of the seen-list.
C2_ModifiedFunctions ==
    modified # <<>> =>
        LET fd    == result[modified[1].file]
            names == modified[1].names
            changed(f) == /\ f # ""
                          /\ \E j \in 1..Len(fd.Changes) :
                                /\ fd.Changes[j].Function = f
                                /\ fd.Changes[j].Type \in {Added, Removed}
        IN  /\ \A f \in Range(names) \cup {fd.Changes[j].Function : j \in 1..Len(fd.Changes)} :
                Occurrences(names, f) = IF changed(f) THEN 1 ELSE 0
            /\ \A f \in Range(names) : InSeq(f, fd.Functions)

\* C2's case: a file in which one function has a changed line and another
\* function is the tag of context lines only.
C2_Witness ==
    /\ modified # <<>>
    /\ modified[1].names # <<>>
    /\ LET fd == result[modified[1].file]
       IN  \E j \in 1..Len(fd.Changes) :
            /\ fd.Changes[j].Type = Context
            /\ fd.Changes[j].Function # ""
            /\ ~InSeq(fd.Changes[j].Function, modified[1].names)

\* C3: for the diff of Scenario A the seen-list is ValidateUser, CreateUser,
\* DeleteUser and GetModifiedFunctions is exactly {ValidateUser, DeleteUser}.
C3_ScenarioA ==
    (source = "scenarioA" /\ modified # <<>>) =>
        /\ result[1].Functions = <<"ValidateUser", "CreateUser", "DeleteUser">>
        /\ Range(modified[1].names) = {"ValidateUser", "DeleteUser"}

\* ------------------------------------------------------------------------
\* Properties of the selection policy (checked under SpecTargets)
\* ------------------------------------------------------------------------
TestPrefixes == {"Test", "Benchmark", "Example", "Fuzz"}

\* the naming convention of tests: a prefix and at least one more character
TestConvention(name) == \E p \in TestPrefixes : HasPrefix(name, p) /\ Len(name) > Len(p)

\* the default policy, as documented
DefaultPolicyKeeps(fn) ==
    /\ fn.Name \notin {"main", "init"}
    /\ ~TestConvention(fn.Name)
    /\ Len(fn.Name) > 0 /\ CharAt(fn.Name, 0) \in UpperCase
    /\ fn.Complexity.CyclomaticComplexity <= 15
    /\ (Len(fn.Parameters) > 0 \/ Len(fn.Returns) > 0)

\* the FunctionDetails of the first k files, one after the other
RECURSIVE DetailsOfFirst(_, _)
DetailsOfFirst(files, k) ==
    IF k = 0 THEN <<>> ELSE DetailsOfFirst(files, k - 1) \o files[k].FunctionDetails

\* C4: buildGenerationTargets ends and keeps a descriptor exactly when the
\* documented default policy keeps it; the file of Scenario B yields exactly
\* ValidateUser.
C4_DefaultPolicy ==
    apc \in {"done", "panic"} =>
        /\ apc = "done"
        /\ GenerationTargets =
                SelectSeq(DetailsOfFirst(ChangedFiles, Len(ChangedFiles)), DefaultPolicyKeeps)
        /\ asource = "scenarioB" =>
                /\ Len(GenerationTargets) = 1
                /\ GenerationTargets[1].Name = "ValidateUser"

\* C5: isTestFunction returns a boolean for every name, true exactly for a
\* name made of a test prefix and at least one more character.
C5_IsTestFunction ==
    isTestCall # <<>> =>
        /\ ~isTestCall[1].out.panic
        /\ isTestCall[1].out.value = TestConvention(isTestCall[1].name)

\* the descriptors shouldGenerateTest returns true for
PassesPolicy(fn) == shouldGenerateTest(fn) = Returned(TRUE)

\* C7: the GenerationTargets of a returned AnalysisResult are the descriptors
\* of the files' FunctionDetails that pass the policy, in the order of the
\* files and of the functions in them, and there are at most TotalFunctions.
C7_TargetsSubsequence ==
    apc = "done" =>
        /\ GenerationTargets =
                SelectSeq(DetailsOfFirst(ChangedFiles, Len(ChangedFiles)), PassesPolicy)
        /\ Len(GenerationTargets) <= TotalFunctions

\* the policy with the configured filtering values in place of the defaults
ConfiguredPolicyKeeps(fn) ==
    /\ fn.Name \notin {"main", "init"}
    /\ ~TestConvention(fn.Name)
    /\ isExported(fn.Name) \/ config[1].Filtering.IncludeUnexported
    /\ fn.Complexity.CyclomaticComplexity <= config[1].Filtering.MaxComplexity
    /\ (Len(fn.Parameters) > 0 \/ Len(fn.Returns) > 0)

\* C15: the generation targets follow the loaded configuration: an unexported
\* function that passes the other predicates is a target when
\* Filtering.IncludeUnexported is true, and the complexity ceiling is
\* Filtering.MaxComplexity.
C15_ConfiguredPolicy ==
    apc = "done" =>
        GenerationTargets =
            SelectSeq(DetailsOfFirst(ChangedFiles, Len(ChangedFiles)), ConfiguredPolicyKeeps)

\* C7's case: a result over two files, with a target from each and a
\* descriptor that is no target.
C7_Witness ==
    /\ apc = "done"
    /\ Len(ChangedFiles) = 2
    /\ Len(GenerationTargets) = 2
    /\ Len(GenerationTargets) < TotalFunctions
    /\ GenerationTargets[1] # GenerationTargets[2]
    /\ InSeq(GenerationTargets[1], ChangedFiles[1].FunctionDetails)
    /\ InSeq(GenerationTargets[2], ChangedFiles[2].FunctionDetails)

\* ------------------------------------------------------------------------
\* Properties of the syntax analyzer (checked under SpecAst)
\* ------------------------------------------------------------------------
\* C6: FilterFunctions(names) returns the file's descriptors whose Name is
\* one of names, in declaration order, whatever the order of names and
\* however often a name is given.
C6_FilterFunctions ==
    filtered # <<>> =>
        LET Requested(fn) == \E i \in 1..Len(filtered[1].names) : filtered[1].names[i] = fn.Name
        IN  filtered[1].out = SelectSeq(analysis.Functions, Requested)

\* C6's case: the names are given against the declaration order, and one
\* of them names nothing in the file or a declaration is left out.
C6_Witness ==
    /\ filtered # <<>>
    /\ Len(filtered[1].names) = 2
    /\ Len(filtered[1].out) = 2
    /\ filtered[1].names[1] = filtered[1].out[2].Name
    /\ filtered[1].names[2] = filtered[1].out[1].Name
    /\ filtered[1].names[1] # filtered[1].names[2]

\* C8: every descriptor of ParseFile, with or without a body, and every
\* model function converted from one has CyclomaticComplexity >= 1, which
\* is ControlFlowCount + 1.
C8_ComplexityAtLeastOne ==
    /\ \A i \in 1..Len(analysis.Functions) :
        /\ analysis.Functions[i].Complexity.CyclomaticComplexity >= 1
        /\ analysis.Functions[i].Complexity.CyclomaticComplexity
                = analysis.Functions[i].Complexity.ControlFlowCount + 1
    /\ \A i \in 1..Len(functionDetails) :
        functionDetails[i].Complexity.CyclomaticComplexity >= 1

\* C9: after analyzeFunctionDecl, HasErrors is true when a return type is
\* exactly error and HasPointers is true when a parameter type or the
\* receiver type begins with *, body or no body; GetName on *User is a
\* method with receiver type *User and HasPointers.
C9_SignatureBackfill ==
    \A i \in 1..Len(analysis.Functions) :
        LET fn == analysis.Functions[i] IN
        /\ (\E r \in 1..Len(fn.Returns) : fn.Returns[r].Type = "error") => fn.Complexity.HasErrors
        /\ (\/ \E q \in 1..Len(fn.Parameters) : HasPrefix(fn.Parameters[q].Type, "*")
            \/ fn.Receiver # <<>> /\ HasPrefix(fn.Receiver[1].Type, "*"))
                => fn.Complexity.HasPointers
        /\ node[i] = DeclGetName =>
                /\ fn.IsMethod
                /\ fn.Receiver # <<>> /\ fn.Receiver[1].Type = "*User"
                /\ fn.Complexity.HasPointers

\* C9's case: a declaration without a body that returns error and takes a
\* pointer, next to the method GetName.
C9_Witness ==
    /\ \E i \in 1..Len(node) :
        /\ node[i].Body = <<>>
        /\ \E r \in 1..Len(analysis.Functions[i].Returns) :
                analysis.Functions[i].Returns[r].Type = "error"
        /\ analysis.Functions[i].Complexity.HasErrors
        /\ analysis.Functions[i].Complexity.HasPointers
    /\ \E i \in 1..Len(node) : node[i] = DeclGetName

\* C10: for every descriptor of ParseFile and every model function
\* converted from one, IsMethod is true exactly when the receiver is there.
C10_MethodIffReceiver ==
    /\ \A i \in 1..Len(analysis.Functions) :
        analysis.Functions[i].IsMethod <=> analysis.Functions[i].Receiver # <<>>
    /\ \A i \in 1..Len(functionDetails) :
        functionDetails[i].IsMethod <=> functionDetails[i].Receiver # <<>>

\* C10's case: converted functions, one a method and one declared with a
\* receiver clause that lists no receiver.
C10_Witness ==
    /\ ppc = "converted"
    /\ \E i, j \in 1..Len(functionDetails) :
        /\ functionDetails[i].IsMethod
        /\ functionDetails[j].Name = "Odd" /\ ~functionDetails[j].IsMethod

\* the initializers of the visited declarations with token tok: <<name, expr>>
Initialized(tok) ==
    {<<genDecls[d].Specs[k].Names[i], genDecls[d].Specs[k].Values[i]>> :
        <<d, k, i>> \in {t \in (1..Len(genDecls)) \X (1..2) \X (1..2) :
                            /\ genDecls[t[1]].Tok = tok
                            /\ t[2] <= Len(genDecls[t[1]].Specs)
                            /\ t[3] <= Len(genDecls[t[1]].Specs[t[2]].Names)
                            /\ t[3] <= Len(genDecls[t[1]].Specs[t[2]].Values)}}

\* C11: ParseFile on a file with const and var declarations that have
\* initializers completes, and Constants and Variables map every such name
\* to the literal or identifier of its initializer, or to unknown.
C11_ConstantsAndVariables ==
    /\ ppc # "panic"
    /\ ppc \in {"parsed", "filtered", "converted"} =>
        /\ analysis.Constants # <<>>
        /\ \A p \in Initialized("const") :
                /\ p[1] \in DOMAIN analysis.Constants[1]
                /\ analysis.Constants[1][p[1]] = extractValue(p[2])
        /\ Initialized("var") # {} => analysis.Variables # <<>>
        /\ analysis.Variables # <<>> =>
                \A p \in Initialized("var") :
                    /\ p[1] \in DOMAIN analysis.Variables[1]
                    /\ analysis.Variables[1][p[1]] = extractValue(p[2])

\* the latest file of the loop is one ParseFile returned an error for
LastFileFailed == lastFile # <<>> /\ lastFile[1].err

\* C12: in AnalyzeChanges and in AnalyzeSpecificFunctions a file ParseFile
\* fails for adds no entry and no target, the loop goes on to the other
\* files with the result as it was, and the call returns no error.
C12_ParseFailureSkipsFile ==
    /\ [](/\ apc # "error"
          /\ LastFileFailed =>
                \A i \in 1..Len(ChangedFiles) : ChangedFiles[i].FilePath # lastFile[1].path
          /\ apc = "done" =>
                \A t \in 1..Len(GenerationTargets) : \E i \in 1..Len(ChangedFiles) :
                    InSeq(GenerationTargets[t], ChangedFiles[i].FunctionDetails))
    /\ [][(lastFile' # lastFile /\ LastFileFailed') =>
                /\ UNCHANGED <<ChangedFiles, TotalFunctions, ModifiedFunctions, GenerationTargets>>
                /\ apc' = "files"]_vars

\* C12's case: a result returned with targets from the first file, after the
\* parse of the second file failed.
C12_Witness ==
    /\ apc = "done"
    /\ LastFileFailed
    /\ filesSeen = 2
    /\ Len(ChangedFiles) = 1
    /\ Len(GenerationTargets) >= 1

\* the declarations of the latest file that AnalyzeSpecificFunctions was
\* asked for: all of them when no name was given
WantedDecls ==
    SelectSeq(lastFile[1].decls,
              LAMBDA d : functionNamesArg = <<>> \/ d.Name \in Range(functionNamesArg))

\* C14: AnalyzeSpecificFunctions with no function name lists every function
\* of an analyzed .go file, in declaration order, as modified and as a
\* detail, and hands them all to the policy; with names, only the functions
\* named; a file with none of them gets no entry, and there is no error.
C14_SpecificFunctions ==
    (asource = "specific" /\ lastFile # <<>> /\ apc # "parsePanic") =>
        LET path    == lastFile[1].path
            entries == SelectSeq(ChangedFiles, LAMBDA e : e.FilePath = path)
        IN  /\ apc # "error"
            /\ IF WantedDecls = <<>>
               THEN entries = <<>>
               ELSE /\ Len(entries) = 1
                    /\ ChangedFiles[Len(ChangedFiles)] = entries[1]
                    /\ entries[1].ModifiedFunctions =
                            [i \in 1..Len(WantedDecls) |-> WantedDecls[i].Name]
                    /\ entries[1].FunctionDetails =
                            [i \in 1..Len(WantedDecls) |->
                                convertToModelFunction(analyzeFunctionDecl(WantedDecls[i], path))]
            /\ apc = "done" =>
                    GenerationTargets =
                        SelectSeq(DetailsOfFirst(ChangedFiles, Len(ChangedFiles)), PassesPolicy)

\* C14's case: no name is given and a file of three functions is analyzed,
\* of which the policy keeps some and drops some.
C14_Witness ==
    /\ asource = "specific"
    /\ functionNamesArg = <<>>
    /\ apc = "done"
    /\ lastFile # <<>>
    /\ Len(lastFile[1].decls) = 3
    /\ Len(ChangedFiles[Len(ChangedFiles)].FunctionDetails) = 3
    /\ Len(GenerationTargets) \in 1..2

\* the step in which the scanner returns a line that starts with @@ and is
\* no hunk header
MalformedHunkStep ==
    /\ scanned' = scanned + 1
    /\ HasPrefix(lastLine', "@@")
    /\ hunkHeaderRegex(lastLine') = <<>>

FileDiffsSoFar == result \o currentFile

\* C16: at every point of the scan and in the result, the Functions list of
\* each FileDiff holds no name twice and no empty name.
C16_SeenListNoDuplicates ==
    \A i \in 1..Len(FileDiffsSoFar) :
        LET functions == FileDiffsSoFar[i].Functions
        IN  \A j \in 1..Len(functions) :
                /\ functions[j] # ""
                /\ Occurrences(functions, functions[j]) = 1

\* C16's case: two lines of one file declare the same function, which is
\* once in the seen-list.
C16_Witness ==
    \E i \in 1..Len(FileDiffsSoFar) :
        LET fd == FileDiffsSoFar[i]
        IN  \E j, k \in 1..Len(fd.Changes) :
                /\ j < k
                /\ extractFunctionName(fd.Changes[j].Line) # ""
                /\ extractFunctionName(fd.Changes[j].Line) = extractFunctionName(fd.Changes[k].Line)
                /\ fd.Changes[j].Type # Removed /\ fd.Changes[k].Type # Removed
                /\ Occurrences(fd.Functions, extractFunctionName(fd.Changes[j].Line)) = 1


\* ------------------------------------------------------------------------
\* Properties of the configuration (checked under SpecConfig, SpecInclude)
\* ------------------------------------------------------------------------
\* the validation rules, as the documentation of the configuration states them
WithinUnitInterval(t) == ~t.nan /\ 0 <= t.tenths /\ t.tenths <= 10

SatisfiesRules(c) ==
    /\ c.Mode \in {"auto", "manual"}
    /\ c.AI.Provider \in {"openai", "anthropic", "groq", "local"}
    /\ c.AI.MaxTokens > 0
    /\ WithinUnitInterval(c.AI.Temperature)
    /\ c.Filtering.MinComplexity <= c.Filtering.MaxComplexity

\* C17: every Config that LoadConfig or LoadConfigFromFile returns with a nil
\* error satisfies the validation rules (mode, provider, positive max_tokens,
\* temperature within [0,1], min_complexity <= max_complexity), and a merged
\* configuration that violates one of them is answered by an error and no
\* Config.
C17_LoadedConfigIsValid ==
    /\ [](cpc = "returned" /\ cfgErr = "" => config # <<>> /\ SatisfiesRules(config[1]))
    /\ [][ValidateAndReturn /\ ~SatisfiesRules(config[1]) => cfgErr' # "" /\ config' = <<>>]_vars


\* name has a part that equals the pattern when case is ignored
CaseInsensitivePart(pattern, name) ==
    \E k \in 0..(Len(name) - Len(pattern)) :
        ToLower(SubSeq(name, k + 1, k + Len(pattern))) = ToLower(pattern)

\* C18: ShouldIncludeFunction(name, isExported, complexity) is true exactly
\* when (isExported or Filtering.IncludeUnexported), MinComplexity <=
\* complexity <= MaxComplexity, and no entry of SkipPatterns glob-matches the
\* name or is a case-insensitive substring of it.
C18_ShouldIncludeFunction ==
    includeCall # <<>> =>
        LET call == includeCall[1]
            f    == config[1].Filtering
        IN call.out <=>
            /\ call.isExported \/ f.IncludeUnexported
            /\ f.MinComplexity <= call.complexity
            /\ call.complexity <= f.MaxComplexity
            /\ \A i \in 1..Len(f.SkipPatterns) :
                 /\ ~Match(f.SkipPatterns[i], call.name)
                 /\ ~CaseInsensitivePart(f.SkipPatterns[i], call.name)

\* a function within the bounds is left out for a pattern that matches it as a
\* glob only
C18_Witness ==
    /\ includeCall # <<>>
    /\ includeCall[1].name = "GetUser"
    /\ includeCall[1].isExported
    /\ includeCall[1].complexity = 5
    /\ config[1].Filtering.SkipPatterns = <<"init", "Get*">>
    /\ ~includeCall[1].out


\* ------------------------------------------------------------------------
\* Properties of the test writer (checked under SpecWrite)
\* ------------------------------------------------------------------------
\* C19: with Output.Overwrite false no file that existed before the call of
\* WriteTestFiles is changed: it is still there with the content it had, and
\* a call of writeTestFile for such a file returned an error and made no
\* backup and no write.
C19_OverwriteProtection ==
    (wpc # "idle" /\ ~config[1].Output.Overwrite) =>
        /\ \A path \in DOMAIN fs0 : Exists(fs, path) /\ fs[path] = fs0[path]
        /\ (lastWrite # <<>> /\ Exists(fs0, lastWrite[1].path)) =>
                lastWrite[1].err # "" /\ lastWrite[1].ops = <<>>

\* C19's case: a call that wrote one new test file and then met a test file
\* that was there before
C19_Witness ==
    /\ wpc = "returned"
    /\ ~config[1].Output.Overwrite
    /\ config[1].Output.BackupExisting
    /\ fs # fs0
    /\ lastWrite # <<>>
    /\ Exists(fs0, lastWrite[1].path)
    /\ writeErr # ""


\* ------------------------------------------------------------------------
\* Properties of the hooks command (checked under SpecHooks)
\* ------------------------------------------------------------------------
ManagedHooks == {"post-commit", "pre-push", "pre-commit"}

MentionsTestgen(file) == Contains(file.content, "testgen")

Printed(line) == \E i \in 1..Len(hookOutput) : hookOutput[i] = line

\* every hook file without the text testgen is there as it was
OtherHooksKept ==
    \A name \in DOMAIN hookFiles0 :
        ~MentionsTestgen(hookFiles0[name]) =>
            name \in DOMAIN hookFiles /\ hookFiles[name] = hookFiles0[name]

\* C20, as stated: uninstallGitHooks removes each of post-commit, pre-push
\* and pre-commit whose content contains testgen, leaves every hook file
\* without testgen as it was, and returns nil.
C20_AsStated ==
    hpc = "returned" =>
        /\ \A name \in ManagedHooks \cap DOMAIN hookFiles0 :
                MentionsTestgen(hookFiles0[name]) => name \notin DOMAIN hookFiles
        /\ OtherHooksKept
        /\ hookErr = ""

\* C20: uninstallGitHooks returns nil; a hook post-commit, pre-push or
\* pre-commit that it can read and whose content contains testgen is removed,
\* or a warning is printed when its removal fails and the hook stays as it
\* was; every other file of .git/hooks is there as it was.
C20_UninstallGitHooks ==
    hpc = "returned" =>
        /\ hookErr = ""
        /\ DOMAIN hookFiles \subseteq DOMAIN hookFiles0
        /\ \A name \in DOMAIN hookFiles0 :
             IF /\ name \in ManagedHooks
                /\ hookFiles0[name].readable
                /\ MentionsTestgen(hookFiles0[name])
             THEN \/ name \notin DOMAIN hookFiles
                  \/ /\ Printed("Warning: failed to remove " \o name \o " hook")
                     /\ name \in DOMAIN hookFiles
                     /\ hookFiles[name] = hookFiles0[name]
             ELSE name \in DOMAIN hookFiles /\ hookFiles[name] = hookFiles0[name]

\* C20's case: one hook of testgen removed, one whose removal failed, and a
\* foreign hook among the three names
C20_Witness ==
    /\ hpc = "returned"
    /\ ManagedHooks \subseteq DOMAIN hookFiles0
    /\ MentionsTestgen(hookFiles0["post-commit"]) /\ "post-commit" \notin DOMAIN hookFiles
    /\ ~MentionsTestgen(hookFiles0["pre-push"]) /\ "pre-push" \in DOMAIN hookFiles
    /\ MentionsTestgen(hookFiles0["pre-commit"]) /\ "pre-commit" \in DOMAIN hookFiles
    /\ Printed("Warning: failed to remove pre-commit hook")


\* ------------------------------------------------------------------------
\* Properties of the function attribution (checked under SpecDiff)
\* ------------------------------------------------------------------------
\* the step reads a content line of the current file and appends its change
AppendsChange ==
    /\ dpc = "scan" /\ dpc' = "scan"
    /\ currentFile # <<>> /\ currentFile' # <<>>
    /\ scanned' = scanned + 1
    /\ Len(currentFile'[1].Changes) = Len(currentFile[1].Changes) + 1

\* the change such a step appends
AppendedChange == currentFile'[1].Changes[Len(currentFile'[1].Changes)]

\* the step reads a hunk header whose context declares a function
ReadsFunctionHeader ==
    /\ scanned' = scanned + 1
    /\ hunkHeaderRegex(lastLine') # <<>>
    /\ DeclaredName(hunkHeaderRegex(lastLine')[1]) # ""

\* the step reads an added or context line that declares a function
ReadsDeclaration ==
    /\ AppendsChange
    /\ AppendedChange.Type \in {Added, Context}
    /\ DeclaredName(AppendedChange.Line) # ""

\* C22: an added or context line that declares X makes X the current
\* function and a seen function of the file; each content line is tagged
\* with the current function, which within a file changes only at such a
\* line or at a hunk header that declares a function; a removed line
\* changes neither the current function nor the seen-list.
C22_InlineDeclaration ==
    /\ [][ReadsDeclaration =>
            /\ currentFunction' = DeclaredName(AppendedChange.Line)
            /\ InSeq(DeclaredName(AppendedChange.Line), currentFile'[1].Functions)]_vars
    /\ [][AppendsChange => AppendedChange.Function = currentFunction]_vars
    /\ [][(dpc = "scan" /\ currentFunction' # currentFunction) =>
            \/ ReadsDeclaration
            \/ ReadsFunctionHeader
            \/ fileHeaderRegex(lastLine') # <<>>]_vars
    /\ [][(AppendsChange /\ AppendedChange.Type = Removed) =>
            /\ currentFunction' = currentFunction
            /\ currentFile'[1].Functions = currentFile[1].Functions]_vars


\* C25: an added line that declares X is tagged X and not the function that
\* was current before it; in the diff of Scenario A, where DeleteUser is
\* added after the untouched CreateUser, CreateUser is not among the
\* modified functions.
C25_DeclarationLineTag ==
    /\ [][(ReadsDeclaration /\ AppendedChange.Type = Added) =>
            AppendedChange.Function = DeclaredName(AppendedChange.Line)]_vars
    /\ []((source = "scenarioA" /\ modified # <<>>) => ~InSeq("CreateUser", modified[1].names))

\* C24: a content line is tagged with the empty string or with a function
\* that its own hunk has declared, in the header context or on an earlier
\* added or context line; no tag comes from a previous hunk.
C24_NoCarryOver ==
    [][AppendsChange =>
            \/ AppendedChange.Function = ""
            \/ AppendedChange.Function \in hunkFunctions]_vars


\* a file header of a diff, as git writes it: with plain or with quoted paths
IsFileHeaderLine(line) == HasPrefix(line, "diff --git ")

\* the old and the new path of a file header
HeaderPaths(line) ==
    LET rest == Drop(line, Len("diff --git ")) IN
    IF HasPrefix(rest, "\"a/")
    THEN LET k == Index(rest, "\" \"b/") IN
         [old |-> SubSeq(rest, 4, k), new |-> SubSeq(rest, k + 7, Len(rest) - 1)]
    ELSE LET k == LastIndex(rest, " b/") IN
         [old |-> SubSeq(rest, 3, k), new |-> Drop(rest, k + 3)]

\* a line of a hunk body: added, removed or context, and no ---/+++ line
IsContentLine(line) ==
    /\ line # ""
    /\ CharAt(line, 0) \in {"+", "-", " "}
    /\ ~isMetadata(line)

\* the result with the open file, if there is one, appended
ResultWithOpenFile == IF currentFile # <<>> THEN Append(result, currentFile[1]) ELSE result

\* C23: every diff --git header line closes the open FileDiff into the
\* result and opens a new one with the paths of the header; every other line
\* leaves the result and the paths alone and, when it is a content line
\* inside a file, is appended to the open FileDiff and to no other; before
\* the first header there is no FileDiff; the end of the input appends the
\* open FileDiff.
C23_OneFileDiffPerHeader ==
    /\ [][(dpc = "scan" /\ scanned' = scanned + 1 /\ IsFileHeaderLine(lastLine')) =>
            /\ result' = ResultWithOpenFile
            /\ currentFile' = <<NewFileDiff(HeaderPaths(lastLine').old,
                                            HeaderPaths(lastLine').new)>>]_vars
    /\ [][(dpc = "scan" /\ scanned' = scanned + 1 /\ ~IsFileHeaderLine(lastLine')) =>
            /\ result' = result
            /\ currentFile = <<>> => currentFile' = <<>>
            /\ currentFile # <<>> =>
                /\ currentFile' # <<>>
                /\ currentFile'[1].OldPath = currentFile[1].OldPath
                /\ currentFile'[1].NewPath = currentFile[1].NewPath
                /\ IF IsContentLine(lastLine')
                   THEN /\ AppendsChange
                        /\ AppendedChange.Line = Drop(lastLine', 1)
                        /\ SubSeq(currentFile'[1].Changes, 1, Len(currentFile[1].Changes))
                                = currentFile[1].Changes
                   ELSE currentFile'[1].Changes = currentFile[1].Changes]_vars
    /\ [][(dpc = "scan" /\ dpc' = "done") => result' = ResultWithOpenFile]_vars


\* ------------------------------------------------------------------------
\* Properties of the generate command (checked under SpecGenerate)
\* ------------------------------------------------------------------------
\* C21: with --dry-run, and with an analysis that yields no generation
\* target, runGenerate calls neither GenerateTests nor WriteTestFiles on any
\* path.
C21_DryRunMakesNoCall ==
    (\/ dryRun
     \/ (gpc \in {"generate", "write", "returned"} /\ Len(genTargets) = 0)) =>
        /\ ~InSeq("GenerateTests", calls)
        /\ ~InSeq("WriteTestFiles", calls)
        /\ gpc \notin {"generate", "write"}

\* C21's case: a dry run over an analysis with targets has returned nil
C21_Witness ==
    /\ gpc = "returned"
    /\ dryRun
    /\ Len(genTargets) > 0
    /\ runErr = ""
    /\ InSeq("PrintAnalysisSummary", calls)


\* ------------------------------------------------------------------------
\* Further properties of the test writer (checked under SpecWrite)
\* ------------------------------------------------------------------------
\* the number of places where sub occurs in str
RECURSIVE CountSub(_, _)
CountSub(str, sub) ==
    LET i == Index(str, sub) IN
    IF i = -1 THEN 0 ELSE 1 + CountSub(Drop(str, i + Len(sub)), sub)

\* the test functions in the test files of a file system, backups left out
RECURSIVE TestsIn(_, _)
TestsIn(fsys, paths) ==
    IF paths = {} THEN 0
    ELSE LET path == CHOOSE q \in paths : TRUE IN
         (IF HasSuffix(path, ".backup") THEN 0 ELSE CountSub(fsys[path], "func Test"))
            + TestsIn(fsys, paths \ {path})

\* C26: when WriteTestFiles returns nil every test it was given is in
\* exactly one test file: the test files hold as many tests as the response
\* had, however many functions there were.
C26_NoTestDropped ==
    (wpc = "returned" /\ writeErr = "") => TestsIn(fs, DOMAIN fs) = Len(wtests)


\* ------------------------------------------------------------------------
\* Properties of the environment overrides (checked under SpecConfig)
\* ------------------------------------------------------------------------
\* the configuration has the value of every TESTGEN_ variable that is set
ReflectsEnvironment(c, e) ==
    /\ e.TESTGEN_MODE # "" => c.Mode = e.TESTGEN_MODE
    /\ e.TESTGEN_API_KEY # "" => c.AI.APIKey = e.TESTGEN_API_KEY
    /\ e.TESTGEN_MODEL # "" => c.AI.Model = e.TESTGEN_MODEL
    /\ e.TESTGEN_PROVIDER # "" => c.AI.Provider = e.TESTGEN_PROVIDER
    /\ e.TESTGEN_BASE_URL # "" => c.AI.BaseURL = e.TESTGEN_BASE_URL

\* C27: the Config that LoadConfig returns has the values of the TESTGEN_MODE,
\* TESTGEN_API_KEY, TESTGEN_MODEL, TESTGEN_PROVIDER and TESTGEN_BASE_URL
\* variables that are set, whether or not a configuration file was found.
C27_EnvironmentOverrides ==
    (cpc = "returned" /\ centry = "LoadConfig" /\ cfgErr = "") =>
        config # <<>> /\ ReflectsEnvironment(config[1], env)


\* ------------------------------------------------------------------------
\* Properties of installing, then uninstalling (checked under SpecInstall)
\* ------------------------------------------------------------------------
\* the hook files that were there before the installation and do not
\* contain the text testgen
ForeignHooks == {name \in DOMAIN hookFiles0 : ~MentionsTestgen(hookFiles0[name])}

\* C28: installGitHooks never replaces the content of a hook file that exists
\* and does not contain testgen; after an installation and an uninstallation
\* every hook file that was there before without testgen is there with the
\* content it had.
C28_ForeignHooksSurvive ==
    /\ [][InstallHook =>
            \A name \in DOMAIN hookFiles :
                ~MentionsTestgen(hookFiles[name]) =>
                    name \in DOMAIN hookFiles' /\ hookFiles'[name] = hookFiles[name]]_vars
    /\ [](hpc = "returned" =>
            \A name \in ForeignHooks :
                name \in DOMAIN hookFiles /\ hookFiles[name] = hookFiles0[name])

\* C29: whatever the list cfg.Hooks, once installGitHooks has succeeded and
\* uninstallGitHooks has run, no hook file that the installation wrote is left
\* in .git/hooks (a hook whose removal failed with a printed warning apart).
C29_InstalledHooksRemoved ==
    hpc = "returned" =>
        \A i \in 1..Len(cfgHooks) :
            \/ cfgHooks[i] \notin DOMAIN hookFiles
            \/ Printed("Warning: failed to remove " \o cfgHooks[i] \o " hook")


\* ------------------------------------------------------------------------
\* Properties of successive writes (checked under SpecRewrite)
\* ------------------------------------------------------------------------
\* C30: with Overwrite and BackupExisting both true, after any number of
\* successive runs of WriteTestFiles the content that a test file had before
\* the first run is in the test file or in its .backup file.
C30_OriginalContentKept ==
    \A path \in DOMAIN fs0 :
        \/ Exists(fs, path) /\ fs[path] = fs0[path]
        \/ Exists(fs, path \o ".backup") /\ fs[path \o ".backup"] = fs0[path]

====
